---- MODULE Spec2Model ----
(***************************************************************************)
(* A model of the schedulability engine of scheduler-simulator:            *)
(*   - the task / job entities                    (src/entities.py)        *)
(*   - the time-domain helpers and the analytic tests                      *)
(*                                                (src/utils/metrics.py)   *)
(*   - the uniprocessor simulation loop           (src/scheduler.py)       *)
(*   - the uniprocessor policies      (src/uniprocessor/algorithms.py)     *)
(*   - the earlier fixed-priority policies        (src/algorithms.py)      *)
(*   - the EDF(k) family              (src/multiprocessor/scheduler.py)    *)
(*                                                                         *)
(* Tasks are identified by their position in the task set (task_id).       *)
(* Utilisations are rationals; they are compared exactly, over the common  *)
(* denominator get_hyper_period.                                           *)
(***************************************************************************)
EXTENDS Integers, Sequences, FiniteSets, TLC

VARIABLES
    tasks,                \* TaskSet.tasks: sequence of Task records
    alg,                  \* the scheduler class under evaluation
    force_simulation,     \* Scheduler.force_simulation
    pc,                   \* position inside is_feasible / simulate_taskset
    result,               \* value returned by is_feasible (None before)
    sim_ret,              \* value returned by simulate_taskset (None before)
    t,                    \* simulated time
    time_step,            \* get_delta_t
    time_max,             \* get_simulation_interval
    jobs,                 \* Task.jobs, per task: sequence of Job records
    job_count,            \* Task.job_count, per task
    active_tasks,         \* list of task ids, one entry per released job
    current_jobs,         \* list of <<task id, job id>>
    previous_cycle_job,   \* <<task id, job id>> or NoJob
    previous_cycle_task,  \* task id or None
    ready_queue,          \* RoundRobin.ready_queue
    late,                 \* history: a job was unfinished at its absolute deadline
    assigned_priorities,  \* Audsley.assigned_priorities: task id -> priority
    tasks_to_assign,      \* Audsley: list of task ids still to be assigned
    priority_level,       \* Audsley: the level being assigned
    sorted_tasks,         \* a priority-sorted list of task ids
    inserted,             \* history: <<task id, position>> of the last insertion
    num_processors,       \* EDFk.m
    num_clusters,         \* EDFk.k
    clusters,             \* EDFk.clusters: sequence of cluster records
    is_partitioned,       \* EDFk.is_partitioned
    cluster_index,        \* is_feasible: the cluster being simulated
    feasible,             \* is_feasible: the local variable feasible
    compared,             \* history: the verdict of the scheduler evaluated before
    heuristic,            \* EDFk.heuristic: the PartitionHeuristic class, or "None"
    decreasing_utilisation, \* PartitionHeuristic.decreasing_utilisation
    returned,             \* the value returned by the last call of a method
    algorithm,            \* review: the algorithm asked for
    file_index,           \* review_task_sets_in_parallel: results consumed so far
    value,                \* review: the status returned for the task set
    not_schedulable_by_a, \* review_task_sets_in_parallel: counter
    schedulable_by_optimal_but_not_by_a, \* review_task_sets_in_parallel: counter
    infeasible,           \* review_task_sets_in_parallel: counter
    call,                 \* the function of utils/metrics.py under evaluation, or "None"
    analysed_task,        \* the task argument of the function, or None
    iterate               \* the loop variable of the function (w, current_busy_period,
                          \* response_time_current, wcrt)

simVars == <<t, time_step, time_max, jobs, job_count, active_tasks, current_jobs,
             previous_cycle_job, previous_cycle_task, ready_queue, late,
             sim_ret>>
audVars == <<assigned_priorities, tasks_to_assign, priority_level>>
listVars == <<sorted_tasks, inserted>>
multiVars == <<num_processors, num_clusters, clusters, is_partitioned, cluster_index, feasible, compared>>
partVars == <<heuristic, decreasing_utilisation>>
callVars == <<returned>>
reviewVars == <<algorithm, file_index, value, not_schedulable_by_a,
                schedulable_by_optimal_but_not_by_a, infeasible>>
iterVars == <<call, analysed_task, iterate>>
extVars == <<partVars, callVars, reviewVars, iterVars>>
vars == <<tasks, alg, force_simulation, pc, result, simVars, audVars, listVars, multiVars,
          extVars>>

\* Python's None, for an integer-valued field and for a Job reference
None == -1
NoJob == <<>>

(***************************************************************************)
(* Bounds of the model.                                                    *)
(***************************************************************************)
MaxOffset == 1
MaxComputation == 2
MaxDeadline == 3
MaxPeriod == 3
MaxJobs == 2
MaxFiles == 2

(***************************************************************************)
(* Program constants.                                                      *)
(***************************************************************************)
MAX_ITERATIONS_LIMIT == 500000
FIRST_IDLE_POINT_CAP == 50000000

(***************************************************************************)
(* Task sets.  A Task is offset, computation_time, deadline, period, all   *)
(* integers, with computation_time, deadline and period positive.          *)
(***************************************************************************)
Task(o, c, d, p) == [offset |-> o, computation_time |-> c, deadline |-> d, period |-> p]

Tasks == { Task(o, c, d, p) : o \in 0..MaxOffset, c \in 1..MaxComputation,
                              d \in 1..MaxDeadline, p \in 1..MaxPeriod }

\* Tasks released synchronously: the analyses never read Task.offset.
SyncTasks == { tk \in Tasks : tk.offset = 0 }

TaskSetsOf(S, counts) == UNION { [1..n -> S] : n \in counts }

\* Two task sets whose simulation horizon exceeds MAX_ITERATIONS_LIMIT.
LargeTaskSets == { <<Task(0, 1000, 1000, 1000), Task(0, 1001, 1001, 1001)>>,
                   <<Task(0, 1, 800, 800), Task(0, 1, 801, 801)>> }

\* Task sets of the specification's examples, and sets whose busy interval is long
\* enough for a job to be preempted and for its deadline to be checked.
NamedTaskSets == { <<Task(0, 1, 3, 3), Task(0, 2, 4, 4)>>,
                   <<Task(0, 3, 4, 4), Task(0, 3, 4, 4)>>,
                   <<Task(0, 1, 2, 2), Task(0, 3, 6, 6)>>,
                   <<Task(1, 1, 2, 2), Task(1, 3, 6, 6)>>,
                   <<Task(0, 1, 3, 3), Task(0, 1, 6, 6), Task(1, 3, 6, 6)>>,
                   <<Task(0, 1, 3, 3), Task(0, 2, 4, 4), Task(0, 1, 6, 6)>>,
                   <<Task(0, 1, 2, 4), Task(0, 2, 3, 4), Task(1, 1, 4, 4)>> }

TaskIds == DOMAIN tasks

(***************************************************************************)
(* Sequence helpers (Python list operations).                              *)
(***************************************************************************)
RECURSIVE SumTo(_, _)
SumTo(f, n) == IF n = 0 THEN 0 ELSE f[n] + SumTo(f, n - 1)

\* sum(f(x) for x in s)
SumSeq(s) == SumTo(s, Len(s))

\* list.index(x): position of the first element equal to x
Index(s, x) == CHOOSE i \in DOMAIN s : s[i] = x /\ \A j \in 1..(i - 1) : s[j] # x

Contains(s, x) == \E i \in DOMAIN s : s[i] = x

\* list.remove(x): drop the first element equal to x
Remove(s, x) ==
    LET i == Index(s, x)
    IN  [j \in 1..(Len(s) - 1) |-> IF j < i THEN s[j] ELSE s[j + 1]]

\* list.insert(pos - 1, x) with 1-based pos
InsertAt(s, pos, x) ==
    [j \in 1..(Len(s) + 1) |-> IF j < pos THEN s[j] ELSE IF j = pos THEN x ELSE s[j - 1]]

\* sorted(s, key=...): stable; Less(a, b) is key(a) < key(b)
SortedBy(s, Less(_, _)) ==
    LET pos(i) == 1 + Cardinality({ j \in DOMAIN s :
                        Less(s[j], s[i]) \/ (~Less(s[i], s[j]) /\ j < i) })
    IN  [p \in DOMAIN s |-> s[CHOOSE i \in DOMAIN s : pos(i) = p]]

\* math.ceil(a / b) for positive b
Ceil(a, b) == (a + b - 1) \div b

(***************************************************************************)
(* GCD and LCM, hyper period, time step.                                   *)
(***************************************************************************)
RECURSIVE gcd(_, _)
gcd(a, b) == IF b = 0 THEN a ELSE gcd(b, a % b)

lcm(a, b) == (a * b) \div gcd(a, b)

RECURSIVE get_lcm(_)
get_lcm(S) ==
    IF Cardinality(S) = 1 THEN CHOOSE x \in S : TRUE
    ELSE LET x == CHOOSE y \in S : TRUE IN lcm(x, get_lcm(S \ {x}))

RECURSIVE get_gcd(_)
get_gcd(S) ==
    IF Cardinality(S) = 1 THEN CHOOSE x \in S : TRUE
    ELSE LET x == CHOOSE y \in S : TRUE IN gcd(x, get_gcd(S \ {x}))

\* ids is a list of task ids of the task set
get_hyper_period(ids) == get_lcm({ tasks[ids[i]].period : i \in DOMAIN ids })

get_feasibility_interval(ids) ==
    LET o_max == CHOOSE o \in { tasks[ids[i]].offset : i \in DOMAIN ids } :
                    \A i \in DOMAIN ids : tasks[ids[i]].offset <= o
    IN  o_max + 2 * get_hyper_period(ids)

\* a step taken from the periods alone
get_delta_t_of_periods(ids) ==
    get_gcd({ tasks[ids[i]].period : i \in DOMAIN ids })

get_delta_t(ids) ==
    get_gcd(UNION { { tasks[ids[i]].offset, tasks[ids[i]].computation_time,
                      tasks[ids[i]].deadline, tasks[ids[i]].period } : i \in DOMAIN ids })

AllIds == [i \in TaskIds |-> i]

(***************************************************************************)
(* Utilisation (src/utils/metrics.py).  UtilisationNum(ids) / Hyper is     *)
(* sum(computation_time / period) over the tasks listed in ids.            *)
(***************************************************************************)
Hyper == get_hyper_period(AllIds)

TaskUtilNum(i) == tasks[i].computation_time * (Hyper \div tasks[i].period)

UtilisationNum(ids) == SumSeq([k \in DOMAIN ids |-> TaskUtilNum(ids[k])])

is_utilisation_lte_1 == UtilisationNum(AllIds) <= Hyper

RECURSIVE Pow(_, _)
Pow(b, e) == IF e = 0 THEN 1 ELSE b * Pow(b, e - 1)

\* utilisation <= n * (2 ** (1 / n) - 1), i.e. (utilisation / n + 1) ** n <= 2
is_utilisation_within_ll_bound ==
    LET n == Len(tasks)
    IN  Pow(UtilisationNum(AllIds) + n * Hyper, n) <= 2 * Pow(n * Hyper, n)

(***************************************************************************)
(* Worst-case response time (src/utils/metrics.py).                        *)
(***************************************************************************)
\* interference of the tasks listed in higher over a window of length r
Interference(higher, r) ==
    SumSeq([k \in DOMAIN higher |->
              Ceil(r, tasks[higher[k]].period) * tasks[higher[k]].computation_time])

\* a variant in which every other task of the list interferes
AllOtherTasks(task, sorted_by_prio_tasks) ==
    SelectSeq(sorted_by_prio_tasks, LAMBDA h : h # task)

\* sorted_by_prio_tasks[:task_index]
HigherPriorityPrefix(task, sorted_by_prio_tasks) ==
    SubSeq(sorted_by_prio_tasks, 1, Index(sorted_by_prio_tasks, task) - 1)

RECURSIVE wcrt_loop(_, _, _)
wcrt_loop(task, higher, response_time_current) ==
    LET response_time_next ==
            tasks[task].computation_time + Interference(higher, response_time_current)
    IN  IF response_time_next = response_time_current
           \/ response_time_next > tasks[task].deadline
        THEN response_time_next
        ELSE wcrt_loop(task, higher, response_time_next)

calculate_worst_case_response_time(task, sorted_by_prio_tasks) ==
    wcrt_loop(task, HigherPriorityPrefix(task, sorted_by_prio_tasks),
              tasks[task].computation_time)

\* float('inf') is [finite |-> FALSE]
Finite(v) == [finite |-> TRUE, value |-> v]
Infinite == [finite |-> FALSE, value |-> 0]

\* a variant that reads the priority numbers the other way round
LowerPriorityByNumber(task, sorted_list, priorities) ==
    SelectSeq(sorted_list, LAMBDA h : priorities[h] > priorities[task])

\* the tasks of sorted_tasks whose priority number is below the task's
HigherPriorityByNumber(task, sorted_list, priorities) ==
    SelectSeq(sorted_list, LAMBDA h : priorities[h] < priorities[task])

RECURSIVE wcrt_prio_loop(_, _, _)
wcrt_prio_loop(task, higher, wcrt) ==
    LET next_wcrt == tasks[task].computation_time + Interference(higher, wcrt)
    IN  IF next_wcrt = wcrt THEN Finite(wcrt)
        ELSE IF next_wcrt > tasks[task].deadline THEN Infinite
        ELSE wcrt_prio_loop(task, higher, next_wcrt)

calculate_worst_case_response_time_with_priorities(task, sorted_list, priorities) ==
    wcrt_prio_loop(task, HigherPriorityByNumber(task, sorted_list, priorities),
                   tasks[task].computation_time)

(***************************************************************************)
(* Simulation horizons (src/utils/metrics.py).                             *)
(***************************************************************************)
RECURSIVE first_idle_loop(_, _, _)
first_idle_loop(ids, w, upper_bound) ==
    IF w > upper_bound THEN upper_bound
    ELSE LET w_next == SumSeq([k \in DOMAIN ids |->
                 LET tk == tasks[ids[k]]
                     interval == IF tk.deadline < tk.period THEN tk.deadline ELSE tk.period
                 IN  Ceil(w, interval) * tk.computation_time])
         IN  IF w_next = w THEN w_next ELSE first_idle_loop(ids, w_next, upper_bound)

get_first_idle_point(ids) ==
    LET hyper_period == get_hyper_period(ids)
        upper_bound == IF hyper_period < FIRST_IDLE_POINT_CAP THEN hyper_period
                       ELSE FIRST_IDLE_POINT_CAP
    IN  first_idle_loop(ids, SumSeq([k \in DOMAIN ids |-> tasks[ids[k]].computation_time]),
                        upper_bound)

RECURSIVE busy_period_loop(_, _, _)
busy_period_loop(ids, current_busy_period, hyper_period) ==
    LET busy_period_next == Interference(ids, current_busy_period)
    IN  IF busy_period_next = current_busy_period THEN current_busy_period
        ELSE IF busy_period_next > hyper_period THEN busy_period_next
        ELSE busy_period_loop(ids, busy_period_next, hyper_period)

get_busy_period(ids) ==
    2 * busy_period_loop(ids, SumSeq([k \in DOMAIN ids |-> tasks[ids[k]].computation_time]),
                         get_hyper_period(ids))

is_task_set_too_long(horizon) == horizon > MAX_ITERATIONS_LIMIT


(***************************************************************************)
(* Entities (src/entities.py).                                             *)
(***************************************************************************)
\* Job(task, release_time), created by Task.release_job
Job(task, release_time, count) ==
    [job_id |-> count + 1,
     computation_time_remaining |-> tasks[task].computation_time,
     release_time |-> release_time]

\* Task.release_job(release_time) returns a job (is not None)
\* the release test without the comparison with the offset
release_job_ignoring_offset(task, release_time) ==
    (release_time - tasks[task].offset) % tasks[task].period = 0

release_job(task, release_time) ==
    /\ release_time >= tasks[task].offset
    /\ (release_time - tasks[task].offset) % tasks[task].period = 0

get_deadline(task, job) == job.release_time + tasks[task].deadline

is_finished(job) == job.computation_time_remaining <= 0

\* the comparison with the absolute deadline taken as not strict
deadline_missed_at_deadline(task, job, current_time) ==
    current_time >= job.release_time + tasks[task].deadline /\ ~is_finished(job)

\* the job is compared with the end of its period (get_absolute_period)
deadline_missed_after_period(task, job, current_time) ==
    current_time > job.release_time + tasks[task].period /\ ~is_finished(job)

deadline_missed(task, job, current_time) ==
    current_time > job.release_time + tasks[task].deadline /\ ~is_finished(job)

\* Job.schedule(for_time)
schedule(job, for_time) ==
    [job EXCEPT !.computation_time_remaining = @ - for_time]

\* the Job object a <<task id, job id>> reference points to
JobOf(js, ref) ==
    LET l == js[ref[1]]
    IN  l[CHOOSE i \in DOMAIN l : l[i].job_id = ref[2]]

\* a finish_job that leaves the job in the list
finish_job_not_removed(js, ref) == js

\* Task.finish_job(job): self.jobs.remove(job)
finish_job(js, ref) ==
    [js EXCEPT ![ref[1]] = SelectSeq(@, LAMBDA j : j.job_id # ref[2])]

(***************************************************************************)
(* Uniprocessor policies (src/uniprocessor/algorithms.py).                 *)
(***************************************************************************)
\* [job for task in active for job in task.jobs], as <<task id, index in task.jobs>>
RECURSIVE JobsOfTasks(_, _)
JobsOfTasks(active, js) ==
    IF active = <<>> THEN <<>>
    ELSE [i \in DOMAIN js[Head(active)] |-> <<Head(active), i>>]
         \o JobsOfTasks(Tail(active), js)

\* a variant taking the job of the latest deadline
LatestDeadlineChoice(cand, js) ==
    LET dl(c) == get_deadline(c[1], js[c[1]][c[2]])
    IN  CHOOSE i \in DOMAIN cand :
            /\ \A j \in DOMAIN cand : dl(cand[i]) >= dl(cand[j])
            /\ \A j \in 1..(i - 1) : dl(cand[j]) < dl(cand[i])

\* a variant taking the first job of the first active task
FirstActiveChoice(cand, js) == 1

\* min(jobs, key=get_deadline): the first job of the list with the least deadline
EarliestDeadlineChoice(cand, js) ==
    LET dl(c) == get_deadline(c[1], js[c[1]][c[2]])
    IN  CHOOSE i \in DOMAIN cand :
            /\ \A j \in DOMAIN cand : dl(cand[i]) <= dl(cand[j])
            /\ \A j \in 1..(i - 1) : dl(cand[j]) > dl(cand[i])

\* EarliestDeadlineFirst.get_top_priority: the task of that job, or None
EDF_get_top_priority(active, js) ==
    LET cand == JobsOfTasks(active, js)
    IN  IF cand = <<>> THEN None ELSE cand[EarliestDeadlineChoice(cand, js)][1]

\* RoundRobin.get_top_priority, the ready queue after its two loops
RR_ready_queue(queue, active) ==
    LET kept == SelectSeq(queue, LAMBDA q : Contains(active, q))
        fresh(k) == ~Contains(kept, active[k])
                    /\ \A j \in 1..(k - 1) : active[j] # active[k]
        idx == SelectSeq([k \in DOMAIN active |-> k], fresh)
    IN  kept \o [k \in DOMAIN idx |-> active[idx[k]]]

RR_get_top_priority(queue) == IF queue = <<>> THEN None ELSE queue[1]

EDF_get_simulation_interval == get_first_idle_point(AllIds)

RR_get_simulation_interval ==
    LET feasibility_interval == get_feasibility_interval(AllIds)
    IN  IF is_task_set_too_long(feasibility_interval) THEN get_busy_period(AllIds)
        ELSE feasibility_interval

get_simulation_interval ==
    IF alg = "EarliestDeadlineFirst" THEN EDF_get_simulation_interval
    ELSE RR_get_simulation_interval


(***************************************************************************)
(* Scheduler.simulate_taskset (src/scheduler.py).                          *)
(* sim_ret: 0 a deadline is missed, 1 all jobs on time, 2 too long.        *)
(***************************************************************************)
NoJobs == [i \in TaskIds |-> <<>>]
NoCounts == [i \in TaskIds |-> 0]

SimIdle ==
    /\ t = 0 /\ time_step = 0 /\ time_max = 0
    /\ jobs = NoJobs /\ job_count = NoCounts
    /\ active_tasks = <<>> /\ current_jobs = <<>>
    /\ previous_cycle_job = NoJob /\ previous_cycle_task = None
    /\ ready_queue = <<>> /\ late = FALSE /\ sim_ret = None

AudIdle ==
    /\ assigned_priorities = <<>> /\ tasks_to_assign = <<>> /\ priority_level = 0

ListIdle ==
    /\ sorted_tasks = <<>> /\ inserted = NoJob

MultiIdle ==
    /\ num_processors = 0 /\ num_clusters = 0 /\ clusters = <<>> /\ is_partitioned = FALSE
    /\ cluster_index = 0 /\ feasible = None /\ compared = None

PartIdle ==
    /\ heuristic = "None" /\ decreasing_utilisation = TRUE

CallIdle ==
    /\ returned = NoJob

IterIdle ==
    /\ call = "None" /\ analysed_task = None /\ iterate = 0

ReviewIdle ==
    /\ algorithm = "None" /\ file_index = 0
    /\ value = None /\ not_schedulable_by_a = 0
    /\ schedulable_by_optimal_but_not_by_a = 0 /\ infeasible = 0

\* lines 85-100: the step, the horizon and the iteration threshold
SimulateStart ==
    /\ pc = "simulate"
    /\ time_step' = get_delta_t(AllIds)
    /\ time_max' = get_simulation_interval
    /\ IF is_task_set_too_long(get_simulation_interval)
       THEN /\ sim_ret' = 2
            /\ pc' = "returned"
       ELSE /\ sim_ret' = sim_ret
            /\ pc' = "loop"
    /\ UNCHANGED <<t, jobs, job_count, active_tasks, current_jobs, previous_cycle_job,
                   previous_cycle_task, ready_queue, late>>
    /\ UNCHANGED <<extVars, tasks, alg, force_simulation, result, audVars, listVars, multiVars>>

\* lines 104-106: the wall-clock budget is exceeded
SimulateTimeout ==
    /\ pc = "loop"
    /\ t < time_max
    /\ sim_ret' = 2
    /\ pc' = "returned"
    /\ UNCHANGED <<t, time_step, time_max, jobs, job_count, active_tasks, current_jobs,
                   previous_cycle_job, previous_cycle_task, ready_queue, late>>
    /\ UNCHANGED <<extVars, tasks, alg, force_simulation, result, audVars, listVars, multiVars>>

\* some job of some task has missed its deadline at time t (lines 110-114)
AnyDeadlineMissed ==
    \E i \in TaskIds : \E j \in DOMAIN jobs[i] : deadline_missed(i, jobs[i][j], t)

\* some job is unfinished at the instant of its absolute deadline
AnyJobLate ==
    \E i \in TaskIds : \E j \in DOMAIN jobs[i] :
        t = get_deadline(i, jobs[i][j]) /\ ~is_finished(jobs[i][j])

\* lines 121-127: the job of the previous cycle is retired when finished
RetireFinished ==
    previous_cycle_job # NoJob /\ previous_cycle_task # None
    /\ is_finished(JobOf(jobs, previous_cycle_job))

\* lines 124-125: list.remove raises ValueError when the finished job, or its
\* task, is not in the list of the current simulation
RetireRaises ==
    /\ RetireFinished
    /\ \/ ~Contains(active_tasks, previous_cycle_job[1])
       \/ ~Contains(current_jobs, previous_cycle_job)

\* lines 121-127: the bookkeeping after the completion retirement
AfterRetirement ==
    [active_tasks |-> IF RetireFinished
                      THEN Remove(active_tasks, previous_cycle_job[1])
                      ELSE active_tasks,
     current_jobs |-> IF RetireFinished
                      THEN Remove(current_jobs, previous_cycle_job)
                      ELSE current_jobs,
     jobs |-> IF RetireFinished
              THEN finish_job(jobs, previous_cycle_job) ELSE jobs,
     previous_cycle_job |-> IF RetireFinished THEN NoJob ELSE previous_cycle_job]

\* lines 130-135: the bookkeeping after the releases, in task order, which is
\* what the priority selection of line 138 reads
AtSelection ==
    LET released == SelectSeq(AllIds, LAMBDA i : release_job(i, t))
    IN  [active_tasks |-> AfterRetirement.active_tasks \o released,
         current_jobs |-> AfterRetirement.current_jobs \o
             [k \in DOMAIN released |-> <<released[k], job_count[released[k]] + 1>>],
         jobs |-> [i \in TaskIds |->
                     IF release_job(i, t)
                     THEN Append(AfterRetirement.jobs[i], Job(i, t, job_count[i]))
                     ELSE AfterRetirement.jobs[i]]]

\* lines 108-164: one iteration of the loop
SimulateCycle ==
    /\ pc = "loop"
    /\ t < time_max
    /\ late' = (late \/ AnyJobLate)
    /\ IF AnyDeadlineMissed
       THEN /\ sim_ret' = 0
            /\ pc' = "returned"
            /\ UNCHANGED <<t, jobs, job_count, active_tasks, current_jobs,
                           previous_cycle_job, previous_cycle_task, ready_queue>>
       ELSE IF RetireRaises
       THEN /\ sim_ret' = sim_ret
            /\ pc' = "raised"
            /\ UNCHANGED <<t, jobs, job_count, active_tasks, current_jobs,
                           previous_cycle_job, previous_cycle_task, ready_queue>>
       ELSE LET \* completion retirement
                prev1 == AfterRetirement.previous_cycle_job
                \* releases, in task order
                jobs2 == AtSelection.jobs
                active2 == AtSelection.active_tasks
                current2 == AtSelection.current_jobs
                \* priority selection
                queue2 == IF alg = "RoundRobin" THEN RR_ready_queue(ready_queue, active2)
                          ELSE ready_queue
                highest_priority_task ==
                    IF alg = "RoundRobin" THEN RR_get_top_priority(queue2)
                    ELSE EDF_get_top_priority(active2, jobs2)
                idle == highest_priority_task = None
                        \/ jobs2[highest_priority_task] = <<>>
                current_cycle_job == jobs2[highest_priority_task][1]
            IN  /\ sim_ret' = sim_ret
                /\ pc' = pc
                /\ t' = t + time_step
                /\ job_count' = [i \in TaskIds |->
                                   IF release_job(i, t) THEN job_count[i] + 1
                                   ELSE job_count[i]]
                /\ active_tasks' = active2
                /\ current_jobs' = current2
                /\ ready_queue' = queue2
                /\ IF idle
                   THEN /\ jobs' = jobs2
                        /\ previous_cycle_job' = prev1
                        /\ previous_cycle_task' = previous_cycle_task
                   ELSE /\ jobs' = [jobs2 EXCEPT ![highest_priority_task][1] =
                                        schedule(current_cycle_job, time_step)]
                        /\ previous_cycle_job' =
                               <<highest_priority_task, current_cycle_job.job_id>>
                        /\ previous_cycle_task' = highest_priority_task
    /\ UNCHANGED <<time_step, time_max>>
    /\ UNCHANGED <<extVars, tasks, alg, force_simulation, result, audVars, listVars, multiVars>>

\* line 166: the loop ends at the horizon
SimulateEnd ==
    /\ pc = "loop"
    /\ t >= time_max
    /\ sim_ret' = 1
    /\ pc' = "returned"
    /\ UNCHANGED <<t, time_step, time_max, jobs, job_count, active_tasks, current_jobs,
                   previous_cycle_job, previous_cycle_task, ready_queue, late>>
    /\ UNCHANGED <<extVars, tasks, alg, force_simulation, result, audVars, listVars, multiVars>>

(***************************************************************************)
(* is_feasible of the simulating policies (src/uniprocessor/algorithms.py).*)
(* result: 0 schedulable (simulated), 1 schedulable (shortcut),            *)
(*         2 not schedulable (simulated), 3 not schedulable (shortcut),    *)
(*         4 timed out.                                                    *)
(***************************************************************************)
\* EarliestDeadlineFirst.is_feasible, lines 96-100
EDF_is_feasible_begin ==
    /\ pc = "start"
    /\ alg = "EarliestDeadlineFirst"
    /\ IF ~is_utilisation_lte_1 /\ ~force_simulation
       THEN result' = 3 /\ pc' = "done"
       ELSE result' = result /\ pc' = "simulate"
    /\ UNCHANGED <<extVars, tasks, alg, force_simulation, simVars, audVars, listVars, multiVars>>

\* EarliestDeadlineFirst.is_feasible, lines 101-105
EDF_result(ret) == IF ret = 1 THEN 0 ELSE 2

EDF_is_feasible_end ==
    /\ pc = "returned"
    /\ alg = "EarliestDeadlineFirst"
    /\ result' = EDF_result(sim_ret)
    /\ pc' = "done"
    /\ UNCHANGED <<extVars, tasks, alg, force_simulation, simVars, audVars, listVars, multiVars>>

\* RoundRobin.is_feasible, line 151
RR_is_feasible_begin ==
    /\ pc = "start"
    /\ alg = "RoundRobin"
    /\ pc' = "simulate"
    /\ UNCHANGED <<extVars, tasks, alg, force_simulation, result, simVars, audVars, listVars, multiVars>>

\* RoundRobin.is_feasible, lines 152-160
RR_result(ret) == IF ret = 1 THEN 0 ELSE IF ret = 0 THEN 2 ELSE 4

RR_is_feasible_end ==
    /\ pc = "returned"
    /\ alg = "RoundRobin"
    /\ result' = RR_result(sim_ret)
    /\ pc' = "done"
    /\ UNCHANGED <<extVars, tasks, alg, force_simulation, simVars, audVars, listVars, multiVars>>

(***************************************************************************)
(* SpecSim: one evaluation of a simulating uniprocessor policy.            *)
(***************************************************************************)
SimTaskSets == TaskSetsOf(Tasks, {1, 2}) \cup NamedTaskSets \cup LargeTaskSets

InitSim ==
    /\ tasks \in SimTaskSets
    /\ alg \in {"EarliestDeadlineFirst", "RoundRobin"}
    /\ force_simulation \in BOOLEAN
    /\ pc = "start"
    /\ result = None
    /\ SimIdle /\ AudIdle /\ ListIdle /\ MultiIdle
    /\ PartIdle /\ CallIdle /\ ReviewIdle /\ IterIdle

NextSim ==
    \/ EDF_is_feasible_begin
    \/ RR_is_feasible_begin
    \/ SimulateStart
    \/ SimulateTimeout
    \/ SimulateCycle
    \/ SimulateEnd
    \/ EDF_is_feasible_end
    \/ RR_is_feasible_end

SpecSim == InitSim /\ [][NextSim]_vars


(***************************************************************************)
(* Claims about the simulating uniprocessor policies (SpecSim).            *)
(***************************************************************************)
ImplicitDeadlines == \A i \in TaskIds : tasks[i].deadline = tasks[i].period

\* C1: whenever simulate_taskset returns 1 (all jobs on time), no job released
\* during the run was still unfinished at the instant of its absolute deadline
\* (for deadlines before the horizon).
C1_SchedulableVerdictSound == (sim_ret = 1) => ~late

\* C2: whenever simulate_taskset ends with the timeout outcome (2), is_feasible
\* of EarliestDeadlineFirst and of RoundRobin returns the timed-out code 4.
C2_TimeoutNeverCoerced == (pc = "done" /\ sim_ret = 2) => result = 4

\* C3: for a task set of utilisation > 1, is_feasible returns a not-schedulable
\* verdict (2 or 3), for either value of force_simulation (stated here for the
\* evaluations that did not time out).
C3_OverUtilisedNotSchedulable ==
    (pc = "done" /\ ~is_utilisation_lte_1 /\ sim_ret # 2) => result \in {2, 3}

\* C4: for a task set with deadline = period for every task and utilisation <= 1,
\* EarliestDeadlineFirst.is_feasible returns 0 for every combination of offsets,
\* unless the simulation timed out.
C4_EDFOptimal ==
    (/\ pc = "done" /\ alg = "EarliestDeadlineFirst"
     /\ ImplicitDeadlines /\ is_utilisation_lte_1 /\ sim_ret # 2) => result = 0


\* a fully utilised implicit-deadline set with distinct offsets, simulated by EDF
\* past the first deadline of one of its tasks
C4_Witness ==
    /\ pc = "done" /\ alg = "EarliestDeadlineFirst" /\ result = 0
    /\ ImplicitDeadlines /\ UtilisationNum(AllIds) = Hyper
    /\ Len(tasks) = 3 /\ tasks[1].offset # tasks[3].offset
    /\ \E i \in TaskIds : t > tasks[i].offset + tasks[i].deadline


(***************************************************************************)
(* Fixed-priority policies decided by response-time analysis               *)
(* (src/uniprocessor/algorithms.py): Rate Monotonic, Deadline Monotonic.   *)
(***************************************************************************)
\* RateMonotonic.__post_init__: sorted(tasks, key=period)
RM_sorted_tasks ==
    SortedBy(AllIds, LAMBDA a, b : tasks[a].period < tasks[b].period)

\* DeadlineMonotonic.__post_init__: sorted(tasks, key=(deadline, period))
DM_sorted_tasks ==
    SortedBy(AllIds, LAMBDA a, b :
        \/ tasks[a].deadline < tasks[b].deadline
        \/ tasks[a].deadline = tasks[b].deadline /\ tasks[a].period < tasks[b].period)

\* the loop "for task in self.sorted_tasks": no task's WCRT exceeds its deadline
wcrt_analysis_passes(sorted) ==
    \A k \in DOMAIN sorted :
        calculate_worst_case_response_time(sorted[k], sorted) <= tasks[sorted[k]].deadline

\* a variant that takes the utilisation shortcut whatever force_simulation says
RM_verdict_unforced(sorted) ==
    IF ~is_utilisation_lte_1 THEN 3
    ELSE IF wcrt_analysis_passes(sorted) THEN 1 ELSE 3

\* RateMonotonic.is_feasible
RM_verdict(sorted) ==
    IF ~is_utilisation_lte_1 /\ ~force_simulation THEN 3
    ELSE IF wcrt_analysis_passes(sorted) THEN 1 ELSE 3

\* DeadlineMonotonic.is_feasible
DM_verdict(sorted) ==
    IF ~is_utilisation_lte_1 /\ ~force_simulation THEN 3
    ELSE IF wcrt_analysis_passes(sorted) THEN 1 ELSE 3

RM_is_feasible ==
    /\ pc = "start"
    /\ alg = "RateMonotonic"
    /\ result' = RM_verdict(sorted_tasks)
    /\ pc' = "done"
    /\ UNCHANGED <<extVars, tasks, alg, force_simulation, simVars, audVars, listVars, multiVars>>

DM_is_feasible ==
    /\ pc = "start"
    /\ alg = "DeadlineMonotonic"
    /\ result' = DM_verdict(sorted_tasks)
    /\ pc' = "done"
    /\ UNCHANGED <<extVars, tasks, alg, force_simulation, simVars, audVars, listVars, multiVars>>

\* task sets of the analyses: synchronous, one to three tasks
AnalysisTaskSets == TaskSetsOf(SyncTasks, {1, 2, 3})

InitFP ==
    /\ tasks \in AnalysisTaskSets
    /\ alg \in {"RateMonotonic", "DeadlineMonotonic"}
    /\ force_simulation \in BOOLEAN
    /\ pc = "start"
    /\ result = None
    /\ sorted_tasks = IF alg = "RateMonotonic" THEN RM_sorted_tasks ELSE DM_sorted_tasks
    /\ inserted = NoJob
    /\ SimIdle /\ AudIdle /\ MultiIdle
    /\ PartIdle /\ CallIdle /\ ReviewIdle /\ IterIdle

NextFP ==
    \/ RM_is_feasible
    \/ DM_is_feasible

SpecFP == InitFP /\ [][NextFP]_vars

\* the priority order the policy announces, stated on the list itself
AscendingPeriod(sorted) ==
    \A a, b \in DOMAIN sorted : a < b => tasks[sorted[a]].period <= tasks[sorted[b]].period

AscendingDeadlineThenPeriod(sorted) ==
    \A a, b \in DOMAIN sorted : a < b =>
        \/ tasks[sorted[a]].deadline < tasks[sorted[b]].deadline
        \/ /\ tasks[sorted[a]].deadline = tasks[sorted[b]].deadline
           /\ tasks[sorted[a]].period <= tasks[sorted[b]].period

IsPermutationOfTasks(sorted) ==
    /\ Len(sorted) = Len(tasks)
    /\ \A i \in TaskIds : Contains(sorted, i)

AnnouncedOrder ==
    /\ IsPermutationOfTasks(sorted_tasks)
    /\ alg = "RateMonotonic" => AscendingPeriod(sorted_tasks)
    /\ alg = "DeadlineMonotonic" => AscendingDeadlineThenPeriod(sorted_tasks)

EveryWcrtWithinDeadline ==
    \A i \in TaskIds :
        calculate_worst_case_response_time(i, sorted_tasks) <= tasks[i].deadline

\* C7 as stated: for every task set and both force_simulation settings, Rate
\* Monotonic and Deadline Monotonic return the schedulable code (1) exactly when
\* every task's WCRT under the announced order is within its deadline, the
\* not-schedulable code (3) otherwise, and never enter the simulation loop.
C7_AsStated ==
    (pc = "done") =>
        /\ AnnouncedOrder
        /\ result = (IF EveryWcrtWithinDeadline THEN 1 ELSE 3)
        /\ SimIdle

\* C7: when force_simulation is set or the utilisation is at most 1, Rate
\* Monotonic and Deadline Monotonic return 1 exactly when every task's WCRT under
\* the announced order is within its deadline and 3 otherwise; when the
\* utilisation exceeds 1 and force_simulation is not set they return 3 without
\* analysis; the simulation loop is never entered.
C7_WcrtDecidesUnlessOverUtilised ==
    (pc = "done") =>
        /\ AnnouncedOrder
        /\ result = (IF ~is_utilisation_lte_1 /\ ~force_simulation THEN 3
                     ELSE IF EveryWcrtWithinDeadline THEN 1 ELSE 3)
        /\ SimIdle

\* an over-utilised set whose analysis passes, evaluated with force_simulation
C7_Witness ==
    /\ pc = "done" /\ result = 1 /\ force_simulation /\ ~is_utilisation_lte_1
    /\ Len(tasks) = 3 /\ sorted_tasks # AllIds


(***************************************************************************)
(* Audsley's optimal priority assignment                                   *)
(* (src/uniprocessor/algorithms.py).  assigned_priorities maps a task id   *)
(* to its priority number, 0 while unassigned; the lowest priority level   *)
(* (the largest number) is assigned first.                                 *)
(***************************************************************************)
is_task_schedulable_with_priority(task, temp_priorities) ==
    LET sorted == SortedBy(AllIds, LAMBDA a, b : temp_priorities[a] < temp_priorities[b])
        wcrt == calculate_worst_case_response_time_with_priorities(
                    task, sorted, temp_priorities)
    IN  wcrt.finite /\ wcrt.value <= tasks[task].deadline

\* a variant that tries only the first unassigned task at each level
Audsley_first_only(to_assign, priorities, level) ==
    IF is_task_schedulable_with_priority(
           Head(to_assign), [priorities EXCEPT ![Head(to_assign)] = level])
    THEN Head(to_assign) ELSE None

\* the inner for loop: the first task of tasks_to_assign that passes at this
\* level (a task that fails has its priority reset to 0 before the next is tried)
Audsley_task_found(to_assign, priorities, level) ==
    LET passing == SelectSeq(to_assign, LAMBDA c :
                      is_task_schedulable_with_priority(c, [priorities EXCEPT ![c] = level]))
    IN  IF passing = <<>> THEN None ELSE Head(passing)

\* lines 208-218
Audsley_is_feasible_begin ==
    /\ pc = "start"
    /\ alg = "Audsley"
    /\ IF ~is_utilisation_lte_1 /\ ~force_simulation
       THEN /\ result' = 3 /\ pc' = "done"
            /\ UNCHANGED audVars
       ELSE /\ assigned_priorities' = [i \in TaskIds |-> 0]
            /\ tasks_to_assign' = AllIds
            /\ priority_level' = Len(tasks)
            /\ result' = result /\ pc' = "assign"
    /\ UNCHANGED <<extVars, tasks, alg, force_simulation, simVars, listVars, multiVars>>

\* one iteration of "while tasks_to_assign", lines 220-239
Audsley_assign_level ==
    /\ pc = "assign"
    /\ alg = "Audsley"
    /\ tasks_to_assign # <<>>
    /\ LET task == Audsley_task_found(tasks_to_assign, assigned_priorities, priority_level)
       IN  IF task # None
           THEN /\ assigned_priorities' = [assigned_priorities EXCEPT ![task] = priority_level]
                /\ tasks_to_assign' = Remove(tasks_to_assign, task)
                /\ priority_level' = priority_level - 1
                /\ UNCHANGED <<result, pc>>
           ELSE /\ result' = 2 /\ pc' = "done"
                /\ UNCHANGED audVars
    /\ UNCHANGED <<extVars, tasks, alg, force_simulation, simVars, listVars, multiVars>>

\* line 241
Audsley_is_feasible_end ==
    /\ pc = "assign"
    /\ alg = "Audsley"
    /\ tasks_to_assign = <<>>
    /\ result' = 0 /\ pc' = "done"
    /\ UNCHANGED <<extVars, tasks, alg, force_simulation, simVars, audVars, listVars, multiVars>>

InitAudsley ==
    /\ tasks \in AnalysisTaskSets
    /\ alg = "Audsley"
    /\ force_simulation \in BOOLEAN
    /\ pc = "start"
    /\ result = None
    /\ SimIdle /\ AudIdle /\ ListIdle /\ MultiIdle
    /\ PartIdle /\ CallIdle /\ ReviewIdle /\ IterIdle

NextAudsley ==
    \/ Audsley_is_feasible_begin
    \/ Audsley_assign_level
    \/ Audsley_is_feasible_end

SpecAudsley == InitAudsley /\ [][NextAudsley]_vars

\* the task list sorted by the assigned priority numbers
AssignedOrder ==
    SortedBy(AllIds, LAMBDA a, b : assigned_priorities[a] < assigned_priorities[b])

\* C5: whenever Audsley.is_feasible returns 0, assigned_priorities is a bijection
\* from the task ids onto 1..n, and calculate_worst_case_response_time on the task
\* list sorted by the assigned order gives every task a WCRT within its deadline.
C5_AudsleyRoundTrip ==
    (pc = "done" /\ alg = "Audsley" /\ result = 0) =>
        /\ DOMAIN assigned_priorities = TaskIds
        /\ { assigned_priorities[i] : i \in TaskIds } = 1..Len(tasks)
        /\ \A i \in TaskIds :
              calculate_worst_case_response_time(i, AssignedOrder) <= tasks[i].deadline

\* three tasks that Audsley orders differently from the input list
C5_Witness ==
    /\ pc = "done" /\ alg = "Audsley" /\ result = 0
    /\ Len(tasks) = 3 /\ AssignedOrder # AllIds

\* the least fixpoint of r = C + sum over higher of ceil(r / P) * C is within
\* the deadline iff some fixpoint is
MeetsDeadline(task, higher) ==
    \E r \in 1..tasks[task].deadline :
        r = tasks[task].computation_time
            + SumSeq([h \in TaskIds |->
                 IF h \in higher THEN Ceil(r, tasks[h].period) * tasks[h].computation_time
                 ELSE 0])

\* the total priority orders: order[k] is the task of the k-th highest priority
PriorityOrders ==
    { order \in [TaskIds -> TaskIds] : \A a, b \in TaskIds : a # b => order[a] # order[b] }

SomeOrderSchedulable ==
    \E order \in PriorityOrders :
        \A k \in TaskIds : MeetsDeadline(order[k], { order[j] : j \in 1..(k - 1) })

Unassigned == { tasks_to_assign[k] : k \in DOMAIN tasks_to_assign }

\* C6: for a task set of utilisation <= 1, Audsley.is_feasible returns 0 iff some
\* total priority order gives every task a WCRT fixpoint within its deadline, and
\* returns 2 exactly when at some level no unassigned task passes the WCRT test
\* with all the other unassigned tasks at higher priority.
C6_AudsleyExact ==
    (pc = "done" /\ alg = "Audsley" /\ is_utilisation_lte_1) =>
        /\ result \in {0, 2}
        /\ (result = 0) <=> SomeOrderSchedulable
        /\ (result = 2) <=>
              /\ Unassigned # {}
              /\ \A c \in Unassigned : ~MeetsDeadline(c, Unassigned \ {c})

\* three tasks that no order schedules although the first level was assigned
C6_Witness ==
    /\ pc = "done" /\ alg = "Audsley" /\ is_utilisation_lte_1 /\ result = 2
    /\ Len(tasks) = 3 /\ Len(tasks_to_assign) = 2


(***************************************************************************)
(* Rate Monotonic and Audsley of src/algorithms.py, which take the Liu and *)
(* Layland shortcut.  Their codes: 0 schedulable by analysis, 1 schedulable*)
(* by shortcut, 2 not schedulable by analysis, 3 not schedulable by        *)
(* shortcut.  Audsley's assigned_priorities holds the assigned tasks only. *)
(***************************************************************************)
\* RateMonotonic.is_feasible
RM_LL_verdict(sorted) ==
    IF is_utilisation_within_ll_bound /\ ~force_simulation THEN 1
    ELSE IF ~is_utilisation_lte_1 /\ ~force_simulation THEN 3
    ELSE IF wcrt_analysis_passes(sorted) THEN 0 ELSE 2

RM_LL_is_feasible ==
    /\ pc = "start"
    /\ alg = "algorithms.RateMonotonic"
    /\ result' = RM_LL_verdict(sorted_tasks)
    /\ pc' = "done"
    /\ UNCHANGED <<extVars, tasks, alg, force_simulation, simVars, audVars, listVars, multiVars>>

\* lines 244-261
Audsley_LL_is_feasible_begin ==
    /\ pc = "start"
    /\ alg = "algorithms.Audsley"
    /\ assigned_priorities' = <<>>
    /\ IF ImplicitDeadlines /\ is_utilisation_within_ll_bound /\ ~force_simulation
       THEN /\ result' = 1 /\ pc' = "done"
            /\ UNCHANGED <<tasks_to_assign, priority_level>>
       ELSE IF ~is_utilisation_lte_1 /\ ~force_simulation
       THEN /\ result' = 3 /\ pc' = "done"
            /\ UNCHANGED <<tasks_to_assign, priority_level>>
       ELSE /\ tasks_to_assign' = AllIds
            /\ priority_level' = Len(tasks)
            /\ result' = result /\ pc' = "assign"
    /\ UNCHANGED <<extVars, tasks, alg, force_simulation, simVars, listVars, multiVars>>

\* temp_priorities = assigned_priorities.copy(); temp_priorities[task] = priority
WithPriority(priorities, task, priority) ==
    [x \in DOMAIN priorities \cup {task} |-> IF x = task THEN priority ELSE priorities[x]]

\* sorted(tasks, key=temp_priorities.get(task_id, inf))
SortedByTempPriorities(temp_priorities) ==
    SortedBy(AllIds, LAMBDA a, b :
        /\ a \in DOMAIN temp_priorities
        /\ b \in DOMAIN temp_priorities => temp_priorities[a] < temp_priorities[b])

\* lines 266-278: the WCRT test of one candidate at one level
Audsley_LL_candidate_passes(task, priorities, priority) ==
    calculate_worst_case_response_time(
        task, SortedByTempPriorities(WithPriority(priorities, task, priority)))
      <= tasks[task].deadline

\* one iteration of "for priority in range(len(tasks_to_assign), 0, -1)"
Audsley_LL_assign_level ==
    /\ pc = "assign"
    /\ alg = "algorithms.Audsley"
    /\ priority_level >= 1
    /\ LET passing == SelectSeq(tasks_to_assign, LAMBDA c :
                         Audsley_LL_candidate_passes(c, assigned_priorities, priority_level))
       IN  IF passing # <<>>
           THEN /\ assigned_priorities' =
                      WithPriority(assigned_priorities, Head(passing), priority_level)
                /\ tasks_to_assign' = Remove(tasks_to_assign, Head(passing))
                /\ priority_level' = priority_level - 1
                /\ UNCHANGED <<result, pc>>
           ELSE /\ result' = 2 /\ pc' = "done"
                /\ UNCHANGED audVars
    /\ UNCHANGED <<extVars, tasks, alg, force_simulation, simVars, listVars, multiVars>>

\* line 292
Audsley_LL_is_feasible_end ==
    /\ pc = "assign"
    /\ alg = "algorithms.Audsley"
    /\ priority_level = 0
    /\ result' = 0 /\ pc' = "done"
    /\ UNCHANGED <<extVars, tasks, alg, force_simulation, simVars, audVars, listVars, multiVars>>

InitLL ==
    /\ tasks \in AnalysisTaskSets
    /\ alg \in {"algorithms.RateMonotonic", "algorithms.Audsley"}
    /\ force_simulation \in BOOLEAN
    /\ pc = "start"
    /\ result = None
    /\ sorted_tasks = IF alg = "algorithms.RateMonotonic" THEN RM_sorted_tasks ELSE <<>>
    /\ inserted = NoJob
    /\ SimIdle /\ AudIdle /\ MultiIdle
    /\ PartIdle /\ CallIdle /\ ReviewIdle /\ IterIdle

NextLL ==
    \/ RM_LL_is_feasible
    \/ Audsley_LL_is_feasible_begin
    \/ Audsley_LL_assign_level
    \/ Audsley_LL_is_feasible_end

SpecLL == InitLL /\ [][NextLL]_vars

\* C9: whenever Rate Monotonic or Audsley of src/algorithms.py returns
\* schedulable-by-shortcut (1) because the utilisation is within the Liu and
\* Layland bound, the exact WCRT analysis under the Rate Monotonic order also
\* finds every task's WCRT within its deadline.
C9_LLShortcutNeverFalsePositive ==
    (pc = "done" /\ result = 1) =>
        \A i \in TaskIds :
            calculate_worst_case_response_time(i, RM_sorted_tasks) <= tasks[i].deadline

(***************************************************************************)
(* calculate_worst_case_response_time on a priority-sorted list into which *)
(* one more task is inserted.  inserted is <<task, position>>.             *)
(***************************************************************************)
\* the priority orders of the tasks but the last one
ListsWithoutLast ==
    LET ids == 1..(Len(tasks) - 1)
    IN  { order \in [ids -> ids] : \A a, b \in ids : a # b => order[a] # order[b] }

InsertTask ==
    /\ pc = "start"
    /\ alg = "calculate_worst_case_response_time"
    /\ \E position \in 1..(Len(sorted_tasks) + 1) :
          /\ sorted_tasks' = InsertAt(sorted_tasks, position, Len(tasks))
          /\ inserted' = <<Len(tasks), position>>
    /\ pc' = "done"
    /\ UNCHANGED <<extVars, tasks, alg, force_simulation, result, simVars, audVars, multiVars>>

InitInsert ==
    /\ tasks \in TaskSetsOf(SyncTasks, {2, 3})
    /\ alg = "calculate_worst_case_response_time"
    /\ force_simulation = FALSE
    /\ pc = "start"
    /\ result = None
    /\ sorted_tasks \in ListsWithoutLast
    /\ inserted = NoJob
    /\ SimIdle /\ AudIdle /\ MultiIdle
    /\ PartIdle /\ CallIdle /\ ReviewIdle /\ IterIdle

NextInsert == InsertTask

SpecInsert == InitInsert /\ [][NextInsert]_vars

\* C8: in a priority-sorted list in which task T has a WCRT within its deadline,
\* inserting a task after T leaves calculate_worst_case_response_time(T, list)
\* unchanged, and the value is the one of the list cut after T.
C8_WcrtUnchangedByLowerPriority ==
    (inserted # NoJob) =>
        LET before == Remove(sorted_tasks, inserted[1])
        IN  \A k \in DOMAIN before :
               LET T == before[k]
               IN  (/\ calculate_worst_case_response_time(T, before) <= tasks[T].deadline
                    /\ k < inserted[2])
                   => /\ calculate_worst_case_response_time(T, sorted_tasks)
                           = calculate_worst_case_response_time(T, before)
                      /\ calculate_worst_case_response_time(T, sorted_tasks)
                           = calculate_worst_case_response_time(T, SubSeq(sorted_tasks, 1, k))

\* a task inserted in the middle of a list: the task before it is within its
\* deadline, the task after it gets a larger WCRT
C8_Witness ==
    /\ Len(sorted_tasks) = 3 /\ inserted # NoJob /\ inserted[2] = 2
    /\ calculate_worst_case_response_time(sorted_tasks[1], sorted_tasks)
           <= tasks[sorted_tasks[1]].deadline
    /\ calculate_worst_case_response_time(sorted_tasks[3], sorted_tasks)
           > calculate_worst_case_response_time(sorted_tasks[3],
                                                Remove(sorted_tasks, inserted[1]))


(***************************************************************************)
(* Multiprocessor EDF (src/multiprocessor/scheduler.py, cluster.py).       *)
(* A cluster is a record; its job lists hold <<task id, job id>>.          *)
(* result: 0 schedulable (simulated), 1 schedulable (sufficient condition),*)
(*         2 not schedulable (simulated), 3 not schedulable (necessary     *)
(*         condition), 4 cannot tell.                                      *)
(***************************************************************************)
MULTI_MAX_ITERATIONS_LIMIT == 50000000

EDFCluster(processors) ==
    [num_processors |-> processors, tasks |-> <<>>, current_jobs |-> <<>>,
     active_tasks |-> <<>>, previous_cycle_jobs |-> <<>>]

\* init_clusters without the cluster of the remaining processors
init_clusters_without_remainder(kk, mm) ==
    IF kk = 1 THEN <<EDFCluster(mm)>>
    ELSE IF kk = mm THEN [c \in 1..mm |-> EDFCluster(1)]
    ELSE [c \in 1..(mm \div kk) |-> EDFCluster(kk)]

\* EDFk.init_clusters
init_clusters(kk, mm) ==
    IF kk = 1 THEN <<EDFCluster(mm)>>
    ELSE IF kk = mm THEN [c \in 1..mm |-> EDFCluster(1)]
    ELSE [c \in 1..(mm \div kk) |-> EDFCluster(kk)]
         \o (IF mm % kk > 0 THEN <<EDFCluster(mm % kk)>> ELSE <<>>)

\* a capacity test that accepts every task
can_fit_always(cluster, task) == TRUE

\* the capacity test without the utilisation of the task that asks to join
can_fit_ignoring_task(cluster, task) ==
    UtilisationNum(cluster.tasks) <= cluster.num_processors * Hyper

\* Cluster.can_fit: utilisation + C / P <= num_processors
can_fit(cluster, task) ==
    UtilisationNum(cluster.tasks) + TaskUtilNum(task) <= cluster.num_processors * Hyper

\* EDFCluster.add_task: the task joins the cluster when it fits
add_task(cluster, task) ==
    IF can_fit(cluster, task) THEN [cluster EXCEPT !.tasks = Append(@, task)]
    ELSE cluster

\* EDFk.partition_taskset, the single-cluster branch: stops at the first task
\* that does not fit
RECURSIVE partition_single_cluster(_, _)
partition_single_cluster(cluster, remaining) ==
    IF remaining = <<>> THEN [clusters |-> <<cluster>>, found_fit |-> TRUE]
    ELSE IF ~can_fit(cluster, Head(remaining))
    THEN [clusters |-> <<cluster>>, found_fit |-> FALSE]
    ELSE partition_single_cluster(add_task(cluster, Head(remaining)), Tail(remaining))

\* a variant that keeps the clusters without tasks
remove_empty_clusters_keeping_all(cl) == cl

\* EDFk.remove_empty_clusters
remove_empty_clusters(cl) ==
    SelectSeq(cl, LAMBDA cluster : UtilisationNum(cluster.tasks) # 0)

\* EDFk.__post_init__ with num_clusters = 1 or no heuristic
post_init(kk, mm) ==
    LET part == partition_single_cluster(init_clusters(kk, mm)[1], AllIds)
    IN  [clusters |-> IF part.found_fit THEN remove_empty_clusters(part.clusters)
                      ELSE part.clusters,
         is_partitioned |-> part.found_fit]

\* density C / min(D, P) as a numerator over DensityDen
MinDP(i) == IF tasks[i].deadline < tasks[i].period THEN tasks[i].deadline ELSE tasks[i].period

DensityDen == get_lcm({ MinDP(i) : i \in TaskIds })

TaskDensityNum(i) == tasks[i].computation_time * (DensityDen \div MinDP(i))

\* EDFk.check_density; "cluster_density =+ density" keeps the last task's density
check_density ==
    IF num_clusters = num_processors /\ \E i \in TaskIds : TaskDensityNum(i) > DensityDen
    THEN FALSE
    ELSE IF num_clusters = 1
    THEN SumSeq([i \in TaskIds |-> TaskDensityNum(i)]) <= num_processors * DensityDen
    ELSE \A c \in DOMAIN clusters :
            LET cluster_density ==
                    IF clusters[c].tasks = <<>> THEN 0
                    ELSE TaskDensityNum(clusters[c].tasks[Len(clusters[c].tasks)])
            IN  ~(cluster_density > clusters[c].num_processors * DensityDen)

\* max(C / P) over the listed tasks, as a numerator over Hyper
MaxUtilNum(ids) ==
    CHOOSE u \in { TaskUtilNum(ids[i]) : i \in DOMAIN ids } :
        \A i \in DOMAIN ids : TaskUtilNum(ids[i]) <= u

\* EDFk.check_utilisation_bound: total <= m/k - (m/k - 1) * max in every cluster
check_utilisation_bound ==
    /\ is_partitioned
    /\ \A c \in DOMAIN clusters :
          ~(num_clusters * UtilisationNum(clusters[c].tasks)
              > num_processors * Hyper
                - (num_processors - num_clusters) * MaxUtilNum(clusters[c].tasks))

\* GlobalEDF.verify_pessimistic_sufficient_condition
verify_pessimistic_sufficient_condition ==
    UtilisationNum(AllIds)
        <= num_processors * Hyper - (num_processors - 1) * MaxUtilNum(AllIds)

\* sorted(tasks, key=C / P, reverse=True)
sort_by_decreasing_utilisation ==
    SortedBy(AllIds, LAMBDA a, b : TaskUtilNum(a) > TaskUtilNum(b))

\* EDFk.calculate_m_min: the candidates m_k = (k - 1) + U(rest) / (1 - U(first k)),
\* each as <<numerator, denominator>>; m_min is their minimum, infinite if none
m_min_candidates ==
    LET sorted == sort_by_decreasing_utilisation
        n == Len(sorted)
        U_k(j) == UtilisationNum(SubSeq(sorted, 1, j))
        U_rest(j) == UtilisationNum(SubSeq(sorted, j + 1, n))
    IN  { <<(j - 1) * (Hyper - U_k(j)) + U_rest(j), Hyper - U_k(j)>> :
            j \in { j \in 1..n : U_k(j) < Hyper } }

\* m_min > m
m_min_exceeds(mm) == \A f \in m_min_candidates : f[1] > mm * f[2]

\* EDFk.get_simulation_interval_for_cluster
get_simulation_interval_for_cluster(cluster) == get_feasibility_interval(cluster.tasks)

multi_is_task_set_too_long(horizon) == horizon > MULTI_MAX_ITERATIONS_LIMIT

\* Cluster.get_top_priorities: the tasks of the num_processors unfinished jobs
\* of earliest deadline (a task is listed once per job)
get_top_priorities(cluster, js) ==
    LET cand == SelectSeq(JobsOfTasks(cluster.active_tasks, js), LAMBDA c :
                    ~is_finished(js[c[1]][c[2]]) /\ Contains(cluster.tasks, c[1]))
        dl(c) == get_deadline(c[1], js[c[1]][c[2]])
        top_jobs == SortedBy(cand, LAMBDA a, b : dl(a) < dl(b))
        n == IF Len(top_jobs) < cluster.num_processors THEN Len(top_jobs)
             ELSE cluster.num_processors
    IN  [i \in 1..n |-> top_jobs[i][1]]

\* lines 384-394: the jobs of the previous cycle are retired when finished;
\* st is [jobs, current, active, raised]; Task.finish_job raises ValueError for
\* a job that is no longer in task.jobs
RECURSIVE retire_previous_cycle_jobs(_, _)
retire_previous_cycle_jobs(prev, st) ==
    IF prev = <<>> \/ st.raised THEN st
    ELSE LET ref == Head(prev)
             present == \E j \in DOMAIN st.jobs[ref[1]] : st.jobs[ref[1]][j].job_id = ref[2]
         IN  IF ~present THEN [st EXCEPT !.raised = TRUE]
             ELSE IF ~is_finished(JobOf(st.jobs, ref))
             THEN retire_previous_cycle_jobs(Tail(prev), st)
             ELSE LET jobs1 == finish_job(st.jobs, ref)
                      current1 == IF Contains(st.current, ref)
                                  THEN Remove(st.current, ref) ELSE st.current
                      has_unfinished_jobs ==
                          \E j \in DOMAIN jobs1[ref[1]] : ~is_finished(jobs1[ref[1]][j])
                      active1 == IF ~has_unfinished_jobs /\ Contains(st.active, ref[1])
                                 THEN Remove(st.active, ref[1]) ELSE st.active
                  IN  retire_previous_cycle_jobs(Tail(prev),
                          [jobs |-> jobs1, current |-> current1,
                           active |-> active1, raised |-> FALSE])

\* EDFk.is_feasible, lines 289-305
EDFk_is_feasible_begin ==
    /\ pc = "start"
    /\ alg = "EDFk"
    /\ IF \/ ~is_partitioned
          \/ ~check_density
          \/ ~check_utilisation_bound
          \/ m_min_exceeds(num_processors)
       THEN /\ result' = 3 /\ pc' = "done"
            /\ UNCHANGED <<cluster_index, feasible>>
       ELSE /\ feasible' = 4 /\ cluster_index' = 1
            /\ result' = result /\ pc' = "next_cluster"
    /\ UNCHANGED <<extVars, tasks, alg, force_simulation, simVars, audVars, listVars>>
    /\ UNCHANGED <<num_processors, num_clusters, clusters, is_partitioned, compared>>

\* GlobalEDF.is_feasible, lines 489-505
GlobalEDF_is_feasible_begin ==
    /\ pc = "start"
    /\ alg = "GlobalEDF"
    /\ IF ~is_partitioned \/ ~check_density
       THEN /\ result' = 3 /\ pc' = "done"
            /\ UNCHANGED <<cluster_index, feasible>>
       ELSE IF verify_pessimistic_sufficient_condition \/ check_utilisation_bound
       THEN /\ result' = 1 /\ pc' = "done"
            /\ UNCHANGED <<cluster_index, feasible>>
       ELSE /\ feasible' = 4 /\ cluster_index' = 1
            /\ result' = result /\ pc' = "next_cluster"
    /\ UNCHANGED <<extVars, tasks, alg, force_simulation, simVars, audVars, listVars>>
    /\ UNCHANGED <<num_processors, num_clusters, clusters, is_partitioned, compared>>

\* "for cluster in self.clusters" and the head of simulate_taskset (lines 358-365)
Multi_next_cluster ==
    /\ pc = "next_cluster"
    /\ IF cluster_index > Len(clusters)
       THEN /\ result' = feasible /\ pc' = "done"
            /\ UNCHANGED <<t, time_step, time_max>>
       ELSE LET cluster == clusters[cluster_index]
                horizon == get_simulation_interval_for_cluster(cluster)
            IN  /\ t' = 0
                /\ time_step' = get_delta_t(cluster.tasks)
                /\ time_max' = horizon
                /\ IF multi_is_task_set_too_long(horizon)
                   THEN result' = 4 /\ pc' = "done"
                   ELSE result' = result /\ pc' = "cluster_loop"
    /\ UNCHANGED <<jobs, job_count, active_tasks, current_jobs, previous_cycle_job,
                   previous_cycle_task, ready_queue, late, sim_ret>>
    /\ UNCHANGED <<extVars, tasks, alg, force_simulation, audVars, listVars, multiVars>>

\* lines 373-375: the wall-clock budget is exceeded
Multi_timeout ==
    /\ pc = "cluster_loop"
    /\ t < time_max
    /\ result' = 4 /\ pc' = "done"
    /\ UNCHANGED <<extVars, tasks, alg, force_simulation, simVars, audVars, listVars, multiVars>>

\* lines 406-419: every task of top_tasks has its first job scheduled for one
\* time step; st is [jobs, current, active] after the releases
Multi_cycle_execute(st, top_tasks) ==
    LET times(i) == Cardinality({ p \in DOMAIN top_tasks : top_tasks[p] = i })
    IN  /\ jobs' = [i \in TaskIds |->
                      IF times(i) > 0
                      THEN [st.jobs[i] EXCEPT ![1] = schedule(@, times(i) * time_step)]
                      ELSE st.jobs[i]]
        /\ clusters' = [clusters EXCEPT ![cluster_index] =
              [@ EXCEPT !.active_tasks = st.active,
                        !.current_jobs = st.current,
                        !.previous_cycle_jobs =
                            [p \in DOMAIN top_tasks |->
                                <<top_tasks[p], st.jobs[top_tasks[p]][1].job_id>>]]]

\* lines 396-403: the releases at time t, in the order of cluster.tasks
Multi_cycle_release(cluster, retired, released) ==
    [jobs |-> [i \in TaskIds |->
                 IF Contains(released, i)
                 THEN Append(retired.jobs[i], Job(i, t, job_count[i]))
                 ELSE retired.jobs[i]],
     active |-> retired.active
                \o SelectSeq(released, LAMBDA i : ~Contains(retired.active, i)),
     current |-> retired.current
                 \o [r \in DOMAIN released |-> <<released[r], job_count[released[r]] + 1>>]]

Multi_cycle_select(cluster, st) ==
    Multi_cycle_execute(st, get_top_priorities([cluster EXCEPT !.active_tasks = st.active],
                                               st.jobs))

Multi_cycle_body(cluster, retired, released) ==
    IF retired.raised
    THEN /\ pc' = "raised"
         /\ UNCHANGED <<result, t, jobs, job_count, clusters>>
    ELSE /\ Multi_cycle_select(cluster, Multi_cycle_release(cluster, retired, released))
         /\ job_count' = [i \in TaskIds |->
                            IF Contains(released, i) THEN job_count[i] + 1
                            ELSE job_count[i]]
         /\ t' = t + time_step
         /\ UNCHANGED <<result, pc>>

\* lines 369-431: one iteration of the loop of simulate_taskset(cluster)
Multi_cycle ==
    /\ pc = "cluster_loop"
    /\ t < time_max
    /\ LET cluster == clusters[cluster_index]
           missed == \E i \in DOMAIN cluster.tasks :
                        \E j \in DOMAIN jobs[cluster.tasks[i]] :
                            deadline_missed(cluster.tasks[i], jobs[cluster.tasks[i]][j], t)
       IN  IF missed
           THEN /\ result' = 2 /\ pc' = "done"
                /\ UNCHANGED <<t, jobs, job_count, clusters>>
           ELSE Multi_cycle_body(cluster,
                    retire_previous_cycle_jobs(cluster.previous_cycle_jobs,
                        [jobs |-> jobs, current |-> cluster.current_jobs,
                         active |-> cluster.active_tasks, raised |-> FALSE]),
                    SelectSeq(cluster.tasks, LAMBDA i : release_job(i, t)))
    /\ UNCHANGED <<time_step, time_max, active_tasks, current_jobs, previous_cycle_job,
                   previous_cycle_task, ready_queue, late, sim_ret>>
    /\ UNCHANGED <<extVars, tasks, alg, force_simulation, audVars, listVars>>
    /\ UNCHANGED <<num_processors, num_clusters, is_partitioned, cluster_index, feasible,
                   compared>>

\* line 433 and lines 336-338: the cluster was simulated to its horizon
Multi_cluster_done ==
    /\ pc = "cluster_loop"
    /\ t >= time_max
    /\ feasible' = 0
    /\ cluster_index' = cluster_index + 1
    /\ pc' = "next_cluster"
    /\ UNCHANGED <<extVars, tasks, alg, force_simulation, result, simVars, audVars, listVars>>
    /\ UNCHANGED <<num_processors, num_clusters, clusters, is_partitioned, compared>>

\* GlobalEDF is constructed on the same task set and processor count, with fresh
\* tasks, after EDFk with num_clusters = 1 has given its verdict
Construct_GlobalEDF ==
    /\ pc = "done"
    /\ alg = "EDFk"
    /\ num_clusters = 1
    /\ compared' = result
    /\ alg' = "GlobalEDF"
    /\ result' = None
    /\ pc' = "start"
    /\ clusters' = post_init(1, num_processors).clusters
    /\ is_partitioned' = post_init(1, num_processors).is_partitioned
    /\ cluster_index' = 0 /\ feasible' = None
    /\ t' = 0 /\ time_step' = 0 /\ time_max' = 0
    /\ jobs' = NoJobs /\ job_count' = NoCounts
    /\ UNCHANGED <<active_tasks, current_jobs, previous_cycle_job, previous_cycle_task,
                   ready_queue, late, sim_ret>>
    /\ UNCHANGED <<extVars, tasks, force_simulation, audVars, listVars, num_processors, num_clusters>>

\* a task set whose feasibility interval exceeds the iteration limit
HugeTaskSets == { <<Task(0, 1, 7001, 7001), Task(0, 1, 7919, 7919)>> }

MultiTaskSets == TaskSetsOf(Tasks, {1, 2}) \cup NamedTaskSets \cup HugeTaskSets

Processors == {1, 2, 3}

InitMulti ==
    /\ tasks \in MultiTaskSets
    /\ alg = "EDFk"
    /\ force_simulation = FALSE
    /\ pc = "start"
    /\ result = None
    /\ num_processors \in Processors
    /\ num_clusters = 1
    /\ clusters = post_init(num_clusters, num_processors).clusters
    /\ is_partitioned = post_init(num_clusters, num_processors).is_partitioned
    /\ cluster_index = 0 /\ feasible = None /\ compared = None
    /\ SimIdle /\ AudIdle /\ ListIdle
    /\ PartIdle /\ CallIdle /\ ReviewIdle /\ IterIdle

NextMulti ==
    \/ EDFk_is_feasible_begin
    \/ GlobalEDF_is_feasible_begin
    \/ Multi_next_cluster
    \/ Multi_timeout
    \/ Multi_cycle
    \/ Multi_cluster_done
    \/ Construct_GlobalEDF

SpecMulti == InitMulti /\ [][NextMulti]_vars

VerdictClass(code) ==
    IF code \in {0, 1} THEN "schedulable"
    ELSE IF code \in {2, 3} THEN "not schedulable"
    ELSE "cannot tell"

\* C10: for every task set and processor count, EDFk constructed with
\* num_clusters = 1 returns the same schedulability verdict as GlobalEDF on the
\* same task set and processor count (stated here for the evaluations in which
\* neither scheduler ran out of time).
C10_OneClusterEqualsGlobal ==
    (pc = "done" /\ alg = "GlobalEDF" /\ result # 4 /\ compared # 4) =>
        VerdictClass(result) = VerdictClass(compared)

(***************************************************************************)
(* Construction of the EDF(k) family with a partition heuristic            *)
(* (src/multiprocessor/partitioner.py, EDFk.__post_init__) and             *)
(* PartitionedEDF (src/multiprocessor/scheduler.py).                       *)
(***************************************************************************)
Heuristics == {"FirstFit", "NextFit", "BestFit", "WorstFit"}

\* sort_tasks_by_utilization(tasks, decreasing): sorted(key=C / P, reverse=decreasing)
sort_tasks_by_utilization(decreasing) ==
    IF decreasing
    THEN SortedBy(AllIds, LAMBDA a, b : TaskUtilNum(a) > TaskUtilNum(b))
    ELSE SortedBy(AllIds, LAMBDA a, b : TaskUtilNum(a) < TaskUtilNum(b))

\* Cluster.get_utilisation, as a numerator over Hyper
get_utilisation(cluster) == UtilisationNum(cluster.tasks)

\* variants of the order: NextFit resuming after the cluster last used,
\* BestFit offering the fullest cluster first, FirstFit scanning from the end
clusters_in_order_next_after(h, cl, current_cluster) ==
    LET n == Len(cl)
        all == [c \in 1..n |-> c]
    IN  IF h = "FirstFit" THEN all
        ELSE IF h = "NextFit"
        THEN [i \in 1..n |-> ((current_cluster + (i - 1)) % n) + 1]
        ELSE IF h = "BestFit"
        THEN SortedBy(all, LAMBDA a, b : get_utilisation(cl[a]) < get_utilisation(cl[b]))
        ELSE SortedBy(all, LAMBDA a, b : get_utilisation(cl[a]) > get_utilisation(cl[b]))

clusters_in_order_best_fullest(h, cl, current_cluster) ==
    LET n == Len(cl)
        all == [c \in 1..n |-> c]
    IN  IF h = "FirstFit" THEN all
        ELSE IF h = "NextFit"
        THEN [i \in 1..n |-> ((current_cluster - 1 + (i - 1)) % n) + 1]
        ELSE SortedBy(all, LAMBDA a, b : get_utilisation(cl[a]) > get_utilisation(cl[b]))

clusters_in_order_first_reversed(h, cl, current_cluster) ==
    LET n == Len(cl)
        all == [c \in 1..n |-> c]
    IN  IF h = "FirstFit" THEN [c \in 1..n |-> n + 1 - c]
        ELSE IF h = "NextFit"
        THEN [i \in 1..n |-> ((current_cluster - 1 + (i - 1)) % n) + 1]
        ELSE IF h = "BestFit"
        THEN SortedBy(all, LAMBDA a, b : get_utilisation(cl[a]) < get_utilisation(cl[b]))
        ELSE SortedBy(all, LAMBDA a, b : get_utilisation(cl[a]) > get_utilisation(cl[b]))

\* the order in which a heuristic offers the clusters to a task: the list
\* itself (FirstFit), the list rotated to current_cluster (NextFit), sorted by
\* utilisation (BestFit) or by utilisation, reversed (WorstFit)
clusters_in_order(h, cl, current_cluster) ==
    LET n == Len(cl)
        all == [c \in 1..n |-> c]
    IN  IF h = "FirstFit" THEN all
        ELSE IF h = "NextFit"
        THEN [i \in 1..n |-> ((current_cluster - 1 + (i - 1)) % n) + 1]
        ELSE IF h = "BestFit"
        THEN SortedBy(all, LAMBDA a, b : get_utilisation(cl[a]) < get_utilisation(cl[b]))
        ELSE SortedBy(all, LAMBDA a, b : get_utilisation(cl[a]) > get_utilisation(cl[b]))

\* PartitionHeuristic.partition: each task of the sorted list joins the first
\* cluster, in the heuristic's order, whose add_task accepts it; the result is
\* None (no clusters, found_fit FALSE) when a task fits no cluster
RECURSIVE partition(_, _, _, _)
partition(h, remaining, cl, current_cluster) ==
    IF remaining = <<>> THEN [clusters |-> cl, found_fit |-> TRUE]
    ELSE LET task == Head(remaining)
             accepting == SelectSeq(clusters_in_order(h, cl, current_cluster),
                                    LAMBDA c : add_task(cl[c], task) # cl[c])
         IN  IF accepting = <<>> THEN [clusters |-> <<>>, found_fit |-> FALSE]
             ELSE partition(h, Tail(remaining),
                            [cl EXCEPT ![accepting[1]] = add_task(@, task)],
                            IF h = "NextFit" THEN accepting[1] ELSE current_cluster)

\* EDFk.partition_taskset
partition_taskset(cl) ==
    IF num_clusters = 1 \/ heuristic = "None"
    THEN partition_single_cluster(cl[1], AllIds)
    ELSE partition(heuristic, sort_tasks_by_utilization(decreasing_utilisation), cl, 1)

\* EDFk.__post_init__, first half: init_clusters
EDFk_init_clusters ==
    /\ pc = "init_clusters"
    /\ clusters' = init_clusters(num_clusters, num_processors)
    /\ pc' = "partition_taskset"
    /\ UNCHANGED <<extVars, tasks, alg, force_simulation, result, simVars, audVars, listVars>>
    /\ UNCHANGED <<num_processors, num_clusters, is_partitioned, cluster_index, feasible,
                   compared>>

\* EDFk.__post_init__, second half: partition_taskset, then remove_empty_clusters
\* when the partitioning succeeded; the single-cluster branch raises ValueError
\* when there is more than one cluster
EDFk_partition_taskset ==
    /\ pc = "partition_taskset"
    /\ IF (num_clusters = 1 \/ heuristic = "None") /\ Len(clusters) # 1
       THEN /\ pc' = "raised"
            /\ UNCHANGED <<clusters, is_partitioned>>
       ELSE LET part == partition_taskset(clusters)
            IN  /\ is_partitioned' = part.found_fit
                /\ clusters' = IF part.found_fit THEN remove_empty_clusters(part.clusters)
                               ELSE part.clusters
                /\ pc' = "start"
    /\ UNCHANGED <<extVars, tasks, alg, force_simulation, result, simVars, audVars, listVars>>
    /\ UNCHANGED <<num_processors, num_clusters, cluster_index, feasible, compared>>

\* PartitionedEDF.utilisation_bound_partitioned
utilisation_bound_partitioned ==
    \A c \in DOMAIN clusters : ~(UtilisationNum(clusters[c].tasks) > Hyper)

\* is_feasible without the test of is_partitioned
PartitionedEDF_is_feasible_begin_unguarded ==
    /\ pc = "start"
    /\ alg = "PartitionedEDF"
    /\ IF \/ ~check_density
          \/ ~utilisation_bound_partitioned
       THEN /\ result' = 3 /\ pc' = "done"
            /\ UNCHANGED <<cluster_index, feasible>>
       ELSE /\ feasible' = 4 /\ cluster_index' = 1
            /\ result' = result /\ pc' = "next_cluster"
    /\ UNCHANGED <<extVars, tasks, alg, force_simulation, simVars, audVars, listVars>>
    /\ UNCHANGED <<num_processors, num_clusters, clusters, is_partitioned, compared>>

\* PartitionedEDF.is_feasible, lines 564-578
PartitionedEDF_is_feasible_begin ==
    /\ pc = "start"
    /\ alg = "PartitionedEDF"
    /\ IF \/ ~is_partitioned
          \/ ~check_density
          \/ ~utilisation_bound_partitioned
       THEN /\ result' = 3 /\ pc' = "done"
            /\ UNCHANGED <<cluster_index, feasible>>
       ELSE /\ feasible' = 4 /\ cluster_index' = 1
            /\ result' = result /\ pc' = "next_cluster"
    /\ UNCHANGED <<extVars, tasks, alg, force_simulation, simVars, audVars, listVars>>
    /\ UNCHANGED <<num_processors, num_clusters, clusters, is_partitioned, compared>>

\* PartitionedEDF is constructed on the same task set, processor count and
\* heuristic, with fresh tasks, after EDFk with num_clusters = num_processors
\* has given its verdict
Construct_PartitionedEDF ==
    /\ pc = "done"
    /\ alg = "EDFk"
    /\ num_clusters = num_processors
    /\ compared' = result
    /\ alg' = "PartitionedEDF"
    /\ result' = None
    /\ pc' = "init_clusters"
    /\ clusters' = <<>>
    /\ is_partitioned' = FALSE
    /\ cluster_index' = 0 /\ feasible' = None
    /\ t' = 0 /\ time_step' = 0 /\ time_max' = 0
    /\ jobs' = NoJobs /\ job_count' = NoCounts
    /\ UNCHANGED <<active_tasks, current_jobs, previous_cycle_job, previous_cycle_task,
                   ready_queue, late, sim_ret>>
    /\ UNCHANGED <<extVars, tasks, force_simulation, audVars, listVars, num_processors,
                   num_clusters>>

\* synchronous tasks with implicit deadlines
ImplicitTasks == { tk \in SyncTasks : tk.deadline = tk.period }

\* task sets that take three or four tasks to partition; the last one has a
\* task whose feasibility interval exceeds the iteration limit
PartNamedTaskSets ==
    { <<Task(0, 2, 3, 3), Task(0, 2, 3, 3), Task(0, 2, 3, 3)>>,
      <<Task(0, 1, 2, 2), Task(0, 2, 3, 3), Task(0, 1, 3, 3)>>,
      <<Task(0, 1, 1, 3), Task(0, 1, 1, 3), Task(0, 1, 1, 3)>>,
      <<Task(0, 1, 1, 1), Task(0, 1, 1, 3), Task(0, 1, 1, 3), Task(0, 1, 1, 3)>>,
      <<Task(0, 25000001, 25000001, 25000001),
        Task(0, 1, 1, 3), Task(0, 1, 1, 3), Task(0, 1, 1, 3)>> }

PartTaskSets == TaskSetsOf(ImplicitTasks, {1, 2}) \cup PartNamedTaskSets

PartProcessors == {1, 2, 3, 4}

InitPart ==
    /\ tasks \in PartTaskSets
    /\ alg \in {"EDFk", "GlobalEDF", "PartitionedEDF"}
    /\ force_simulation = FALSE
    /\ pc = "init_clusters"
    /\ result = None
    /\ num_processors \in PartProcessors
    /\ num_clusters \in IF alg = "GlobalEDF" THEN {1}
                        ELSE IF alg = "PartitionedEDF" THEN {num_processors}
                        ELSE 1..num_processors
    /\ heuristic \in IF alg = "GlobalEDF" THEN {"None"} ELSE Heuristics
    /\ decreasing_utilisation \in IF alg = "GlobalEDF" THEN {TRUE} ELSE BOOLEAN
    /\ clusters = <<>> /\ is_partitioned = FALSE
    /\ cluster_index = 0 /\ feasible = None /\ compared = None
    /\ SimIdle /\ AudIdle /\ ListIdle /\ CallIdle /\ ReviewIdle /\ IterIdle

NextPart ==
    \/ EDFk_init_clusters
    \/ EDFk_partition_taskset
    \/ EDFk_is_feasible_begin
    \/ GlobalEDF_is_feasible_begin
    \/ PartitionedEDF_is_feasible_begin
    \/ Multi_next_cluster
    \/ Multi_timeout
    \/ Multi_cycle
    \/ Multi_cluster_done
    \/ Construct_PartitionedEDF

SpecPart == InitPart /\ [][NextPart]_vars

\* C11: for every task set, processor count m, partition heuristic and sort
\* order, EDFk constructed with num_clusters = m returns the same
\* schedulability verdict as PartitionedEDF constructed on the same task set,
\* m, heuristic and sort order (stated here for the evaluations in which
\* neither scheduler ran out of time).
C11_AllClustersEqualsPartitioned ==
    (pc = "done" /\ alg = "PartitionedEDF" /\ compared # None
        /\ result # 4 /\ compared # 4) =>
        VerdictClass(result) = VerdictClass(compared)

\* the processor counts of the clusters, in list order
ClusterSizes == [c \in DOMAIN clusters |-> clusters[c].num_processors]

\* k clusters of m / k processors, and the remainder of the division, if any,
\* in one more cluster
LayoutOf(kk, mm) ==
    [c \in 1..kk |-> mm \div kk] \o (IF mm % kk > 0 THEN <<mm % kk>> ELSE <<>>)

\* C12: constructing EDFk with m processors and k clusters, 1 < k < m, yields
\* k clusters of m / k processors each, with any remainder of the division in
\* one additional smaller cluster; k = 1 yields one cluster of m processors and
\* k = m yields m clusters of one processor.
C12_ClusterLayout ==
    (pc = "partition_taskset" /\ alg = "EDFk") =>
        ClusterSizes = LayoutOf(num_clusters, num_processors)

\* some task has computation_time / period > 1
SomeTaskOverOne == \E i \in TaskIds : tasks[i].computation_time > tasks[i].period

\* C13: when every cluster has one processor (num_clusters = num_processors)
\* and some task has computation_time / period > 1, the partitioning fails:
\* is_partitioned is False and, where a heuristic did the partitioning, its
\* partition returned None, for FirstFit, NextFit, BestFit and WorstFit, in
\* increasing and in decreasing order of utilisation, for every number of
\* clusters.
C13_OverOneNeverPartitioned ==
    (pc = "start" /\ num_clusters = num_processors /\ SomeTaskOverOne) =>
        /\ ~is_partitioned
        /\ (num_clusters > 1 => clusters = <<>>)

C13_Witness ==
    /\ pc = "start" /\ alg = "PartitionedEDF" /\ SomeTaskOverOne
    /\ num_processors = 3 /\ Len(tasks) = 2
    /\ heuristic = "WorstFit" /\ ~decreasing_utilisation
    /\ \E i \in TaskIds : tasks[i].computation_time < tasks[i].period
    /\ ~is_partitioned

\* C14: when the partitioning failed at construction, is_feasible of EDFk,
\* GlobalEDF and PartitionedEDF returns 3 (not schedulable, shortcut) without
\* entering simulate_taskset: no job of any task is ever released.
C14_PartitionFailureIsShortcut ==
    (~is_partitioned /\ pc \notin {"init_clusters", "partition_taskset", "start"}) =>
        /\ pc = "done" /\ result = 3
        /\ jobs = NoJobs /\ job_count = NoCounts /\ t = 0

C14_Witness ==
    /\ pc = "done" /\ ~is_partitioned /\ result = 3
    /\ alg = "PartitionedEDF" /\ num_processors = 2 /\ Len(tasks) = 3
    /\ ~SomeTaskOverOne

\* sum(U_i) <= p - (p - 1) * max(U_i) in every cluster, p the processors of the cluster
BoundHoldsInEveryCluster ==
    \A c \in DOMAIN clusters :
        UtilisationNum(clusters[c].tasks)
            <= clusters[c].num_processors * Hyper
               - (clusters[c].num_processors - 1) * MaxUtilNum(clusters[c].tasks)

\* C15: for an EDFk scheduler whose partitioning succeeded and whose density
\* check passed, if every cluster satisfies the utilisation bound (with the
\* cluster's processors, and with m / k as check_utilisation_bound computes it),
\* is_feasible returns 1 (schedulable, shortcut) without running
\* simulate_taskset on any cluster.
C15_BoundShortcutReturnsOne ==
    (pc = "done" /\ alg = "EDFk" /\ is_partitioned /\ check_density
        /\ check_utilisation_bound /\ BoundHoldsInEveryCluster) =>
        (result = 1 /\ jobs = NoJobs)

\* a cluster whose simulation, run to its end, reports a deadline miss: one
\* processor and three tasks released at 0 with deadline 1, so that at t = 2
\* (the step is 1 and the horizon is beyond 2) a job released at 0 is
\* unfinished
ClusterMustMiss(cluster) ==
    /\ cluster.num_processors = 1
    /\ Cardinality({ i \in DOMAIN cluster.tasks :
                        /\ tasks[cluster.tasks[i]].offset = 0
                        /\ tasks[cluster.tasks[i]].deadline = 1 }) >= 3
    /\ get_simulation_interval_for_cluster(cluster) > 2
    /\ ~multi_is_task_set_too_long(get_simulation_interval_for_cluster(cluster))

\* is_feasible went past the shortcuts (feasible was initialised) and returned
ReturnedFromSimulationStage == pc = "done" /\ feasible # None

\* C16, as stated: when is_feasible reaches the simulation stage it returns 2
\* whenever the simulation of at least one cluster would report a deadline
\* miss, whatever the outcomes and the positions of the other clusters, and it
\* returns 0 only if every cluster's simulation returned 0.
C16_AsStated ==
    ReturnedFromSimulationStage =>
        /\ (\E c \in DOMAIN clusters :
                /\ ClusterMustMiss(clusters[c])
                /\ ~(result = 4 /\ cluster_index = c)) => result = 2
        /\ result = 0 => cluster_index = Len(clusters) + 1

\* C16, amended: the clusters are simulated in list order and the first cluster
\* whose simulation does not return 0 decides; a cluster that would report a
\* deadline miss makes the result 2 unless that cluster or a cluster before it
\* in the list timed out (then the result is 4), and the result is 0 only if
\* every cluster's simulation returned 0.
C16_FirstUnsuccessfulClusterDecides ==
    ReturnedFromSimulationStage =>
        /\ \A c \in DOMAIN clusters :
              ClusterMustMiss(clusters[c]) =>
                  \/ result = 2 /\ cluster_index <= c
                  \/ result = 4 /\ cluster_index <= c
        /\ result = 0 => cluster_index = Len(clusters) + 1

C16_Witness ==
    /\ ReturnedFromSimulationStage
    /\ result = 4 /\ cluster_index = 1 /\ Len(clusters) = 2
    /\ multi_is_task_set_too_long(time_max)
    /\ ClusterMustMiss(clusters[2])

(***************************************************************************)
(* Task.release_job called on its own (src/entities.py).                   *)
(* returned is <<job>> for a returned Job and NoJob for None.              *)
(***************************************************************************)
ReleaseTimes == 0..(MaxOffset + 2 * MaxPeriod)

\* Task.release_job(release_time) on task 1; t keeps the argument of the call
Call_release_job ==
    /\ pc = "idle"
    /\ alg = "Task.release_job"
    /\ job_count[1] < MaxJobs
    /\ \E release_time \in ReleaseTimes :
          /\ t' = release_time
          /\ IF release_job(1, release_time)
             THEN LET job == Job(1, release_time, job_count[1])
                  IN  /\ job_count' = [job_count EXCEPT ![1] = @ + 1]
                      /\ jobs' = [jobs EXCEPT ![1] = Append(@, job)]
                      /\ returned' = <<job>>
             ELSE /\ returned' = NoJob
                  /\ UNCHANGED <<jobs, job_count>>
    /\ UNCHANGED <<time_step, time_max, active_tasks, current_jobs, previous_cycle_job,
                   previous_cycle_task, ready_queue, late, sim_ret>>
    /\ UNCHANGED <<partVars, reviewVars, iterVars, tasks, alg, force_simulation, pc, result, audVars,
                   listVars, multiVars>>

InitRelease ==
    /\ tasks \in TaskSetsOf(Tasks, {1})
    /\ alg = "Task.release_job"
    /\ force_simulation = FALSE
    /\ pc = "idle"
    /\ result = None
    /\ SimIdle /\ AudIdle /\ ListIdle /\ MultiIdle
    /\ PartIdle /\ CallIdle /\ ReviewIdle /\ IterIdle

NextRelease == Call_release_job

SpecRelease == InitRelease /\ [][NextRelease]_vars

\* C17: Task.release_job(t) creates, appends to the task's job list and
\* returns a new job, with computation_time_remaining = computation_time and
\* release_time = t, iff t >= offset and (t - offset) % period = 0; for every
\* other t it returns None and leaves the job list and job_count unchanged.
C17_ReleaseJobContract ==
    [][IF t' >= tasks[1].offset /\ (t' - tasks[1].offset) % tasks[1].period = 0
       THEN /\ returned' # NoJob
            /\ returned'[1].computation_time_remaining = tasks[1].computation_time
            /\ returned'[1].release_time = t'
            /\ jobs'[1] = Append(jobs[1], returned'[1])
       ELSE /\ returned' = NoJob
            /\ jobs' = jobs /\ job_count' = job_count]_vars

C17_Witness ==
    /\ alg = "Task.release_job"
    /\ Len(jobs[1]) = 2 /\ job_count[1] = 2
    /\ jobs[1][2].release_time = tasks[1].offset + tasks[1].period
    /\ tasks[1].offset > 0 /\ tasks[1].period > 1

(***************************************************************************)
(* The reviews: review_task_set and the counting loop of                   *)
(* review_task_sets_in_parallel (src/uniprocessor/feasibility/review.py),  *)
(* review_task_set_multi (src/multiprocessor/feasibility/review.py).       *)
(* A task set that could not be parsed (None) is the empty sequence; the   *)
(* universes hold no TaskSet without tasks.                                *)
(***************************************************************************)
NoTaskSet == <<>>

ReviewAlgorithms == {"RateMonotonic", "DeadlineMonotonic", "Audsley"}
MultiAlgorithms == {"EDFk", "GlobalEDF", "PartitionedEDF"}

\* the __post_init__ of the scheduler get_uni_scheduler constructs
uni_post_init(a) ==
    IF a = "RateMonotonic" THEN RM_sorted_tasks
    ELSE IF a = "DeadlineMonotonic" THEN DM_sorted_tasks
    ELSE <<>>

\* review_task_set, lines 23-27: None is answered 5 before any scheduler exists
Review_task_set ==
    /\ pc = "review"
    /\ algorithm \in ReviewAlgorithms
    /\ IF tasks = NoTaskSet
       THEN /\ value' = 5 /\ pc' = "count"
            /\ UNCHANGED sorted_tasks
       ELSE /\ value' = value /\ pc' = "start"
            /\ sorted_tasks' = uni_post_init(algorithm)
    /\ UNCHANGED <<partVars, callVars, iterVars, algorithm, file_index, not_schedulable_by_a,
                   schedulable_by_optimal_but_not_by_a, infeasible>>
    /\ UNCHANGED <<tasks, alg, force_simulation, result, simVars, audVars, inserted,
                   multiVars>>

\* review_task_set, lines 30-42: the verdict of is_feasible is returned
Review_task_set_return ==
    /\ pc = "done"
    /\ algorithm \in ReviewAlgorithms
    /\ value = None
    /\ value' = result
    /\ pc' = "count"
    /\ UNCHANGED <<partVars, callVars, iterVars, algorithm, file_index, not_schedulable_by_a,
                   schedulable_by_optimal_but_not_by_a, infeasible>>
    /\ UNCHANGED <<tasks, alg, force_simulation, result, simVars, audVars, listVars,
                   multiVars>>

\* review_task_sets_in_parallel, lines 85-103: the verdict is counted and, when
\* it is 2 or 3, EarliestDeadlineFirst is constructed on the parent's task set
\* (check_schedulable_by_optimal, force_simulation False)
Review_count ==
    /\ pc = "count"
    /\ not_schedulable_by_a' = IF value \in {2, 3} THEN not_schedulable_by_a + 1
                               ELSE not_schedulable_by_a
    /\ IF value \in {2, 3}
       THEN /\ alg' = "EarliestDeadlineFirst"
            /\ force_simulation' = FALSE
            /\ result' = None
            /\ pc' = "start"
       ELSE /\ pc' = "reviewed"
            /\ UNCHANGED <<alg, force_simulation, result>>
    /\ UNCHANGED <<partVars, callVars, iterVars, algorithm, file_index, value,
                   schedulable_by_optimal_but_not_by_a, infeasible>>
    /\ UNCHANGED <<tasks, simVars, audVars, listVars, multiVars>>

\* lines 103-107: the verdict of EarliestDeadlineFirst.is_feasible classifies
\* the task set
Review_classify ==
    /\ pc = "done"
    /\ algorithm \in ReviewAlgorithms
    /\ value \in {2, 3}
    /\ IF result = 1
       THEN /\ schedulable_by_optimal_but_not_by_a' = schedulable_by_optimal_but_not_by_a + 1
            /\ UNCHANGED infeasible
       ELSE /\ infeasible' = infeasible + 1
            /\ UNCHANGED schedulable_by_optimal_but_not_by_a
    /\ pc' = "reviewed"
    /\ UNCHANGED <<partVars, callVars, iterVars, algorithm, file_index, value, not_schedulable_by_a>>
    /\ UNCHANGED <<tasks, alg, force_simulation, result, simVars, audVars, listVars,
                   multiVars>>

\* task sets of the later files of a batch
NextFileTaskSets ==
    { NoTaskSet,
      <<Task(0, 1, 2, 2)>>,
      <<Task(0, 2, 1, 1)>>,
      <<Task(0, 2, 3, 3), Task(0, 1, 1, 3)>> }

\* line 79: the loop takes the next result (the file was reviewed by a worker
\* of the pool, on its own copy of the task set)
Review_next_file ==
    /\ pc = "reviewed"
    /\ algorithm \in ReviewAlgorithms
    /\ file_index < MaxFiles
    /\ file_index' = file_index + 1
    /\ tasks' \in NextFileTaskSets
    /\ alg' = algorithm
    /\ force_simulation' \in BOOLEAN
    /\ result' = None /\ value' = None
    /\ pc' = "review"
    /\ t' = 0 /\ time_step' = 0 /\ time_max' = 0
    /\ jobs' = [i \in DOMAIN tasks' |-> <<>>]
    /\ job_count' = [i \in DOMAIN tasks' |-> 0]
    /\ active_tasks' = <<>> /\ current_jobs' = <<>>
    /\ previous_cycle_job' = NoJob /\ previous_cycle_task' = None
    /\ ready_queue' = <<>> /\ late' = FALSE /\ sim_ret' = None
    /\ assigned_priorities' = <<>> /\ tasks_to_assign' = <<>> /\ priority_level' = 0
    /\ sorted_tasks' = <<>>
    /\ UNCHANGED <<partVars, callVars, iterVars, algorithm, not_schedulable_by_a,
                   schedulable_by_optimal_but_not_by_a, infeasible, inserted, multiVars>>

\* review_task_set_multi, lines 26-30: None is answered 4; otherwise
\* get_multi_scheduler constructs the scheduler
Review_task_set_multi ==
    /\ pc = "review"
    /\ algorithm \in MultiAlgorithms
    /\ IF tasks = NoTaskSet
       THEN value' = 4 /\ pc' = "reviewed"
       ELSE value' = value /\ pc' = "init_clusters"
    /\ UNCHANGED <<partVars, callVars, iterVars, algorithm, file_index, not_schedulable_by_a,
                   schedulable_by_optimal_but_not_by_a, infeasible>>
    /\ UNCHANGED <<tasks, alg, force_simulation, result, simVars, audVars, listVars,
                   multiVars>>

\* review_task_set_multi, lines 36-50
Review_task_set_multi_return ==
    /\ pc = "done"
    /\ algorithm \in MultiAlgorithms
    /\ value' = result
    /\ pc' = "reviewed"
    /\ UNCHANGED <<partVars, callVars, iterVars, algorithm, file_index, not_schedulable_by_a,
                   schedulable_by_optimal_but_not_by_a, infeasible>>
    /\ UNCHANGED <<tasks, alg, force_simulation, result, simVars, audVars, listVars,
                   multiVars>>

(***************************************************************************)
(* SpecReview: one batch of review_task_sets_in_parallel under a           *)
(* fixed-priority algorithm A, or one call of review_task_set_multi.       *)
(***************************************************************************)
ReviewTaskSets == TaskSetsOf(SyncTasks, {1, 2}) \cup {NoTaskSet}

MultiReviewTaskSets == PartNamedTaskSets \cup {NoTaskSet}

InitReview ==
    /\ algorithm \in ReviewAlgorithms \cup MultiAlgorithms
    /\ alg = algorithm
    /\ tasks \in IF algorithm \in ReviewAlgorithms THEN ReviewTaskSets
                 ELSE MultiReviewTaskSets
    /\ force_simulation \in IF algorithm \in ReviewAlgorithms THEN BOOLEAN ELSE {FALSE}
    /\ pc = "review"
    /\ result = None
    /\ file_index = 1
    /\ value = None /\ not_schedulable_by_a = 0
    /\ schedulable_by_optimal_but_not_by_a = 0 /\ infeasible = 0
    /\ IF algorithm \in ReviewAlgorithms
       THEN MultiIdle /\ PartIdle
       ELSE /\ num_processors \in PartProcessors
            /\ num_clusters \in IF alg = "GlobalEDF" THEN {1}
                                ELSE IF alg = "PartitionedEDF" THEN {num_processors}
                                ELSE 1..num_processors
            /\ heuristic \in IF alg = "GlobalEDF" THEN {"None"} ELSE Heuristics
            /\ decreasing_utilisation \in IF alg = "GlobalEDF" THEN {TRUE} ELSE BOOLEAN
            /\ clusters = <<>> /\ is_partitioned = FALSE
            /\ cluster_index = 0 /\ feasible = None /\ compared = None
    /\ SimIdle /\ AudIdle /\ ListIdle /\ CallIdle /\ IterIdle

NextReview ==
    \/ Review_task_set
    \/ RM_is_feasible
    \/ DM_is_feasible
    \/ Audsley_is_feasible_begin
    \/ Audsley_assign_level
    \/ Audsley_is_feasible_end
    \/ Review_task_set_return
    \/ Review_count
    \/ EDF_is_feasible_begin
    \/ SimulateStart
    \/ SimulateTimeout
    \/ SimulateCycle
    \/ SimulateEnd
    \/ EDF_is_feasible_end
    \/ Review_classify
    \/ Review_next_file
    \/ Review_task_set_multi
    \/ EDFk_init_clusters
    \/ EDFk_partition_taskset
    \/ EDFk_is_feasible_begin
    \/ GlobalEDF_is_feasible_begin
    \/ PartitionedEDF_is_feasible_begin
    \/ Multi_next_cluster
    \/ Multi_timeout
    \/ Multi_cycle
    \/ Multi_cluster_done
    \/ Review_task_set_multi_return

SpecReview == InitReview /\ [][NextReview]_vars

\* C18: in review_task_sets_in_parallel, every task set whose verdict under
\* algorithm A is 2 or 3 is counted in exactly one of
\* schedulable_by_optimal_but_not_by_a and infeasible, and it is counted as
\* schedulable_by_optimal_but_not_by_a exactly when EarliestDeadlineFirst's
\* is_feasible reports the task set schedulable (0 or 1).
C18_FailureClassification ==
    [][(pc = "done" /\ algorithm \in ReviewAlgorithms /\ value \in {2, 3}) =>
        /\ schedulable_by_optimal_but_not_by_a' + infeasible'
             = schedulable_by_optimal_but_not_by_a + infeasible + 1
        /\ schedulable_by_optimal_but_not_by_a' >= schedulable_by_optimal_but_not_by_a
        /\ infeasible' >= infeasible
        /\ (schedulable_by_optimal_but_not_by_a' = schedulable_by_optimal_but_not_by_a + 1)
             <=> (result \in {0, 1})]_vars

\* C19: a null TaskSet is never evaluated: review_task_set and
\* review_task_set_multi, given task_set = None, return without constructing a
\* scheduler and without raising, and the status they return is different from
\* every result 0..4 that a scheduler's is_feasible can return.
C19_NullTaskSetDedicatedStatus ==
    tasks = NoTaskSet =>
        /\ pc \in {"review", "count", "reviewed"}
        /\ result = None /\ sorted_tasks = <<>> /\ clusters = <<>>
        /\ pc # "review" => (value # None /\ value \notin 0..4)

(***************************************************************************)
(* The deadline rule of the uniprocessor loop (SpecSim).                   *)
(***************************************************************************)
\* some job in some task's job list is past its absolute deadline with
\* computation left, stated on the fields of the job
SomeJobPastDeadline ==
    \E i \in DOMAIN jobs : \E j \in DOMAIN jobs[i] :
        /\ t > jobs[i][j].release_time + tasks[i].deadline
        /\ jobs[i][j].computation_time_remaining > 0

\* the step is an iteration of the loop that was not cut by the wall clock
LoopIteration ==
    pc = "loop" /\ t < time_max /\ ~(pc' = "returned" /\ sim_ret' = 2)

\* C20: every iteration of the uniprocessor loop at time t ends the simulation
\* with 0 (deadline missed) iff some job in some task's job list has
\* t > release_time + deadline and computation_time_remaining > 0; the check
\* comes before retirement, release and execution of the same iteration (which
\* then do not happen), so a job whose remaining computation reached 0 exactly
\* at its absolute deadline is not reported.
C20_DeadlineMissRule ==
    [][LoopIteration =>
        /\ (pc' = "returned" /\ sim_ret' = 0) <=> SomeJobPastDeadline
        /\ SomeJobPastDeadline =>
               UNCHANGED <<t, jobs, job_count, active_tasks, current_jobs,
                           previous_cycle_job, previous_cycle_task, ready_queue>>
        /\ ~SomeJobPastDeadline => (pc' = "loop" /\ t' = t + time_step)]_vars

\* the loop is about to check the deadlines at the very instant a job, run in
\* the previous iteration, reached 0 at its absolute deadline; no job is past
\* its deadline, so the iteration goes on
C20_Witness ==
    /\ pc = "loop" /\ t < time_max
    /\ previous_cycle_job # NoJob
    /\ \E j \in DOMAIN jobs[previous_cycle_job[1]] :
          LET job == jobs[previous_cycle_job[1]][j]
          IN  /\ job.job_id = previous_cycle_job[2]
              /\ job.computation_time_remaining = 0
              /\ t = job.release_time + tasks[previous_cycle_job[1]].deadline
    /\ ~SomeJobPastDeadline

(***************************************************************************)
(* The bookkeeping of the uniprocessor loop (SpecSim).                     *)
(***************************************************************************)
\* an iteration of the loop that goes past its deadline check
CycleRuns == pc = "loop" /\ t < time_max /\ ~AnyDeadlineMissed

\* the <<task id, job id>> references of the jobs held in the job lists js
JobRefs(js) ==
    UNION { { <<i, js[i][j].job_id>> : j \in DOMAIN js[i] } : i \in DOMAIN js }

TotalJobs(js) == SumSeq([i \in DOMAIN js |-> Len(js[i])])

Occurrences(s, x) == Cardinality({ k \in DOMAIN s : s[k] = x })

\* C21: a job whose computation_time_remaining reached <= 0 in a cycle is
\* removed from its task's job list, from current_jobs and (one occurrence of
\* its task) from active_tasks at the start of the next cycle, before the
\* releases; so at the priority selection no finished job is in any job list,
\* current_jobs holds exactly the jobs of the job lists, and active_tasks holds
\* each task once per job.
C21_CompletionRetirement ==
    CycleRuns =>
        /\ \A i \in TaskIds : \A j \in DOMAIN jobs[i] :
              is_finished(jobs[i][j]) =>
                 /\ <<i, jobs[i][j].job_id>> \notin JobRefs(AfterRetirement.jobs)
                 /\ ~Contains(AfterRetirement.current_jobs, <<i, jobs[i][j].job_id>>)
                 /\ Occurrences(AfterRetirement.active_tasks, i)
                      = Occurrences(active_tasks, i) - 1
        /\ \A i \in TaskIds : \A j \in DOMAIN AtSelection.jobs[i] :
              ~is_finished(AtSelection.jobs[i][j])
        /\ { AtSelection.current_jobs[k] : k \in DOMAIN AtSelection.current_jobs }
              = JobRefs(AtSelection.jobs)
        /\ Len(AtSelection.current_jobs) = TotalJobs(AtSelection.jobs)
        /\ \A i \in TaskIds :
              Occurrences(AtSelection.active_tasks, i) = Len(AtSelection.jobs[i])

\* a cycle that retires the finished job of a task holding a second job, while
\* another job is released
C21_Witness ==
    /\ CycleRuns
    /\ RetireFinished
    /\ Len(jobs[previous_cycle_job[1]]) >= 2
    /\ \E i \in TaskIds : release_job(i, t)

\* the step is an iteration of the loop that got to the priority selection
CycleStep == CycleRuns /\ pc' = "loop" /\ t' = t + time_step

\* C22: uniprocessor EDF is job-level: in every cycle in which an unfinished
\* released job exists, a job is executed for one time_step, it is the first
\* job of the task returned by get_top_priority, and its absolute deadline
\* release_time + deadline is the least among the unfinished released jobs of
\* all tasks.
C22_EDFJobLevel ==
    [][(CycleStep /\ alg = "EarliestDeadlineFirst"
          /\ \E i \in TaskIds : \E j \in DOMAIN AtSelection.jobs[i] :
                ~is_finished(AtSelection.jobs[i][j])) =>
        /\ previous_cycle_job' # NoJob
        /\ LET task == previous_cycle_job'[1]
               job == JobOf(AtSelection.jobs, previous_cycle_job')
           IN  /\ task = EDF_get_top_priority(AtSelection.active_tasks, AtSelection.jobs)
               /\ job = AtSelection.jobs[task][1]
               /\ JobOf(jobs', previous_cycle_job').computation_time_remaining
                    = job.computation_time_remaining - time_step
               /\ \A i \in TaskIds : \A j \in DOMAIN AtSelection.jobs[i] :
                     ~is_finished(AtSelection.jobs[i][j]) =>
                        job.release_time + tasks[task].deadline
                          <= AtSelection.jobs[i][j].release_time + tasks[i].deadline]_vars

\* the selection has to choose: jobs of two tasks are pending and the job of
\* the earliest deadline does not belong to the first active task
C22_Witness ==
    /\ CycleRuns /\ alg = "EarliestDeadlineFirst"
    /\ Len(AtSelection.active_tasks) >= 2
    /\ EDF_get_top_priority(AtSelection.active_tasks, AtSelection.jobs)
         # AtSelection.active_tasks[1]
    /\ \E i \in TaskIds : \E j \in DOMAIN AtSelection.jobs[i] :
          LET top == EDF_get_top_priority(AtSelection.active_tasks, AtSelection.jobs)
          IN  get_deadline(i, AtSelection.jobs[i][j])
                > get_deadline(top, AtSelection.jobs[top][1])

\* the ready queue RoundRobin.get_top_priority reads its answer from
QueueAtSelection == RR_ready_queue(ready_queue, AtSelection.active_tasks)

\* C23: in RoundRobin the task chosen in a cycle is the head of the queue of
\* active tasks and is rotated to the tail, so that when two or more tasks stay
\* active over two consecutive cycles the task selected in the first is not
\* selected again in the second.
C23_RoundRobinRotation ==
    [][(CycleStep /\ alg = "RoundRobin" /\ QueueAtSelection # <<>>) =>
        /\ previous_cycle_task' = Head(QueueAtSelection)
        /\ ready_queue' = Tail(QueueAtSelection) \o <<Head(QueueAtSelection)>>
        /\ Cardinality({ q \in TaskIds : Contains(ready_queue, q)
                                          /\ Contains(QueueAtSelection, q) }) >= 2
             => previous_cycle_task' # previous_cycle_task]_vars

(***************************************************************************)
(* The execution model of a cluster (SpecPart).                            *)
(***************************************************************************)
\* computation_time_remaining of the job before the cycle: as it stood in the
\* job list, or the computation time of its task for a job released in the cycle
RemainingBefore(i, job) ==
    IF \E j \in DOMAIN jobs[i] : jobs[i][j].job_id = job.job_id
    THEN JobOf(jobs, <<i, job.job_id>>).computation_time_remaining
    ELSE tasks[i].computation_time

\* C24: in every cycle of the per-cluster simulation at most num_processors
\* jobs are executed, they are pairwise distinct and have the earliest absolute
\* deadlines among the unfinished jobs of the cluster, and each executed job's
\* computation_time_remaining decreases by exactly one time_step (no job is
\* advanced twice, none becomes negative).
C24_ClusterExecution ==
    [][(pc = "cluster_loop" /\ pc' = "cluster_loop" /\ t' = t + time_step) =>
        LET cluster == clusters'[cluster_index]
            executed == cluster.previous_cycle_jobs
            ran(i, job) == \E p \in DOMAIN executed : executed[p] = <<i, job.job_id>>
        IN  /\ Len(executed) <= cluster.num_processors
            /\ \A a, b \in DOMAIN executed : a # b => executed[a] # executed[b]
            /\ \A i \in TaskIds : \A j \in DOMAIN jobs'[i] :
                  /\ jobs'[i][j].computation_time_remaining
                       = RemainingBefore(i, jobs'[i][j])
                           - (IF ran(i, jobs'[i][j]) THEN time_step ELSE 0)
                  /\ jobs'[i][j].computation_time_remaining >= 0
            /\ \A p \in DOMAIN executed :
                  \A i \in TaskIds : \A j \in DOMAIN jobs'[i] :
                     (Contains(cluster.tasks, i) /\ ~ran(i, jobs'[i][j])
                        /\ ~is_finished(jobs'[i][j])) =>
                         JobOf(jobs', executed[p]).release_time
                             + tasks[executed[p][1]].deadline
                           <= jobs'[i][j].release_time + tasks[i].deadline]_vars

DensityExceeded(cluster) ==
    SumSeq([a \in DOMAIN cluster.tasks |-> TaskDensityNum(cluster.tasks[a])])
      > cluster.num_processors * DensityDen

\* C26: for 1 < k < m, check_density returns False, and is_feasible returns 3,
\* whenever some cluster's total density exceeds that cluster's
\* num_processors, and check_density returns True when no cluster exceeds it.
C26_ClusterDensity ==
    (alg = "EDFk" /\ 1 < num_clusters /\ num_clusters < num_processors /\ is_partitioned) =>
        /\ pc = "start" =>
              (check_density <=> ~\E c \in DOMAIN clusters : DensityExceeded(clusters[c]))
        /\ (pc = "done" /\ \E c \in DOMAIN clusters : DensityExceeded(clusters[c])) =>
              result = 3

\* C27: the m_min rejection belongs to Global EDF only: GlobalEDF.is_feasible
\* returns 3 whenever calculate_m_min() exceeds m, and every 3 returned by
\* EDFk with 1 < k < m or by PartitionedEDF is explained by a failed
\* partition, density check or utilisation bound, never by m_min alone.
C27_MMinGlobalOnly ==
    pc = "done" =>
        /\ (alg = "GlobalEDF" /\ m_min_exceeds(num_processors)) => result = 3
        /\ (alg = "EDFk" /\ 1 < num_clusters /\ num_clusters < num_processors
              /\ result = 3) =>
                 (~is_partitioned \/ ~check_density \/ ~check_utilisation_bound)
        /\ (alg = "PartitionedEDF" /\ result = 3) =>
                 (~is_partitioned \/ ~check_density \/ ~utilisation_bound_partitioned)

(***************************************************************************)
(* The partition heuristics, stated on the placements (SpecPart).          *)
(* A placement is the cluster list after the tasks placed so far, or <<>>  *)
(* when a task fitted no cluster (None).                                   *)
(***************************************************************************)
\* the clusters in which the task fits
Fitting(cl, task) == { c \in DOMAIN cl : can_fit(cl[c], task) }

PlaceIn(cl, c, task) == [cl EXCEPT ![c].tasks = Append(@, task)]

\* the tasks in the configured order of utilisation, ties in task-set order
TasksInOrder ==
    sort_tasks_by_utilization(decreasing_utilisation)

OrderedByUtilisation(order) ==
    /\ Len(order) = Len(tasks)
    /\ \A i \in TaskIds : Contains(order, i)
    /\ \A a, b \in DOMAIN order : a < b =>
          IF decreasing_utilisation
          THEN TaskUtilNum(order[a]) >= TaskUtilNum(order[b])
          ELSE TaskUtilNum(order[a]) <= TaskUtilNum(order[b])

\* the step is the partitioning of the scheduler's construction by heuristic h
PartitionStep(h) ==
    pc = "partition_taskset" /\ heuristic = h /\ num_clusters # 1 /\ pc' = "start"

\* what EDFk.__post_init__ keeps of a placement
KeptOf(placement) ==
    [is_partitioned |-> placement # <<>>,
     clusters |-> SelectSeq(placement, LAMBDA cluster : cluster.tasks # <<>>)]

\* the first cluster that fits, scanning the list from position start and
\* wrapping around; 0 when none fits
FirstFittingFrom(cl, task, start) ==
    LET n == Len(cl)
        scan == [i \in 1..n |-> ((start - 1 + (i - 1)) % n) + 1]
    IN  IF Fitting(cl, task) = {} THEN 0
        ELSE scan[CHOOSE i \in 1..n : /\ scan[i] \in Fitting(cl, task)
                                      /\ \A j \in 1..(i - 1) : scan[j] \notin Fitting(cl, task)]

\* Next-Fit resuming at the cluster after the one used last (last = 0: none yet)
RECURSIVE NextFitAfterLast(_, _, _)
NextFitAfterLast(remaining, cl, last) ==
    IF remaining = <<>> THEN cl
    ELSE LET c == FirstFittingFrom(cl, Head(remaining),
                                   IF last = 0 THEN 1 ELSE (last % Len(cl)) + 1)
         IN  IF c = 0 THEN <<>>
             ELSE NextFitAfterLast(Tail(remaining), PlaceIn(cl, c, Head(remaining)), c)

\* Next-Fit resuming at the cluster used last
RECURSIVE NextFitAtLast(_, _, _)
NextFitAtLast(remaining, cl, last) ==
    IF remaining = <<>> THEN cl
    ELSE LET c == FirstFittingFrom(cl, Head(remaining), IF last = 0 THEN 1 ELSE last)
         IN  IF c = 0 THEN <<>>
             ELSE NextFitAtLast(Tail(remaining), PlaceIn(cl, c, Head(remaining)), c)

\* C28 as stated: for each task in sorted order, NextFit.partition starts
\* scanning at the cluster after the one that received the most recently
\* placed task (the first task starts at the first cluster), wraps around,
\* places the task in the first scanned cluster that fits, and returns None if
\* no cluster fits.
C28_AsStated ==
    [][PartitionStep("NextFit") =>
        /\ OrderedByUtilisation(TasksInOrder)
        /\ is_partitioned' = KeptOf(NextFitAfterLast(TasksInOrder, clusters, 0)).is_partitioned
        /\ clusters' = KeptOf(NextFitAfterLast(TasksInOrder, clusters, 0)).clusters]_vars

\* C28, amended: for each task in sorted order, NextFit.partition starts
\* scanning at the cluster that received the most recently placed task (the
\* first task starts at the first cluster), wraps around, places the task in
\* the first scanned cluster that fits, and returns None if no cluster fits.
C28_NextFitResumesAtLastUsed ==
    [][PartitionStep("NextFit") =>
        /\ OrderedByUtilisation(TasksInOrder)
        /\ is_partitioned' = KeptOf(NextFitAtLast(TasksInOrder, clusters, 0)).is_partitioned
        /\ clusters' = KeptOf(NextFitAtLast(TasksInOrder, clusters, 0)).clusters]_vars

\* Next-Fit placed two tasks in one cluster and went on to another cluster
C28_Witness ==
    /\ pc = "start" /\ heuristic = "NextFit" /\ is_partitioned
    /\ Len(clusters) >= 2
    /\ \E c \in DOMAIN clusters : Len(clusters[c].tasks) >= 2

\* Best-Fit: the least utilised of the clusters in which the task fits, the
\* first of them in list order when several are equally utilised
RECURSIVE BestFitPlacement(_, _)
BestFitPlacement(remaining, cl) ==
    IF remaining = <<>> THEN cl
    ELSE LET task == Head(remaining)
             least == { c \in Fitting(cl, task) :
                          \A d \in Fitting(cl, task) :
                              get_utilisation(cl[c]) <= get_utilisation(cl[d]) }
         IN  IF Fitting(cl, task) = {} THEN <<>>
             ELSE BestFitPlacement(Tail(remaining),
                      PlaceIn(cl, CHOOSE c \in least : \A d \in least : c <= d, task))

\* C29: for each task in sorted order, BestFit.partition assigns the task to
\* the cluster of least existing utilisation among the clusters in which the
\* task still fits (utilisations as they stand when the task is placed; the
\* first such cluster when several tie), and returns None if the task fits no
\* cluster.
C29_BestFitLeastUtilised ==
    [][PartitionStep("BestFit") =>
        /\ OrderedByUtilisation(TasksInOrder)
        /\ is_partitioned' = KeptOf(BestFitPlacement(TasksInOrder, clusters)).is_partitioned
        /\ clusters' = KeptOf(BestFitPlacement(TasksInOrder, clusters)).clusters]_vars

\* Best-Fit spread the tasks: a later cluster took a task although the first
\* cluster, already holding one, still had room for it
C29_Witness ==
    /\ pc = "start" /\ heuristic = "BestFit" /\ is_partitioned
    /\ Len(clusters) >= 2 /\ Len(tasks) >= 3
    /\ clusters[1].tasks # <<>>
    /\ \E c \in 2..Len(clusters) : \E a \in DOMAIN clusters[c].tasks :
          can_fit(clusters[1], clusters[c].tasks[a])

\* First-Fit: the first cluster of the list in which the task fits
RECURSIVE FirstFitPlacement(_, _)
FirstFitPlacement(remaining, cl) ==
    IF remaining = <<>> THEN cl
    ELSE LET c == FirstFittingFrom(cl, Head(remaining), 1)
         IN  IF c = 0 THEN <<>>
             ELSE FirstFitPlacement(Tail(remaining), PlaceIn(cl, c, Head(remaining)))

\* C30: for each task in sorted order (utilisation ascending or descending per
\* configuration), FirstFit.partition assigns the task to the first cluster,
\* in the original cluster order, in which it fits, and returns None as soon
\* as a task fits no cluster.
C30_FirstFitFirstCluster ==
    [][PartitionStep("FirstFit") =>
        /\ OrderedByUtilisation(TasksInOrder)
        /\ is_partitioned' = KeptOf(FirstFitPlacement(TasksInOrder, clusters)).is_partitioned
        /\ clusters' = KeptOf(FirstFitPlacement(TasksInOrder, clusters)).clusters]_vars

\* First-Fit filled the first cluster and had to use a second one
C30_Witness ==
    /\ pc = "start" /\ heuristic = "FirstFit" /\ is_partitioned
    /\ Len(clusters) >= 2
    /\ Len(clusters[1].tasks) >= 2
    /\ \A a \in DOMAIN clusters[2].tasks : ~can_fit(clusters[1], clusters[2].tasks[a])

(***************************************************************************)
(* The level test of Audsley in src/algorithms.py (SpecLL).                *)
(***************************************************************************)
\* the tasks whose interference the WCRT of a candidate counts at this level
InterferingWith(candidate) ==
    HigherPriorityPrefix(candidate,
        SortedByTempPriorities(WithPriority(assigned_priorities, candidate, priority_level)))

AtAudsleyLevel ==
    pc = "assign" /\ alg = "algorithms.Audsley" /\ priority_level >= 1

\* C31: at each priority level, from the lowest upward, the WCRT computed for
\* a candidate counts the interference of every still-unassigned task and of
\* no task that already has a lower priority, and the candidate passes the
\* level only if the WCRT under that interference is within its deadline.
C31_AudsleyLevelInterference ==
    AtAudsleyLevel =>
        \A k \in DOMAIN tasks_to_assign :
            LET candidate == tasks_to_assign[k]
                unassigned == Remove(tasks_to_assign, candidate)
            IN  /\ \A i \in TaskIds :
                      Contains(InterferingWith(candidate), i) <=> Contains(unassigned, i)
                /\ Audsley_LL_candidate_passes(candidate, assigned_priorities, priority_level)
                      => wcrt_loop(candidate, unassigned, tasks[candidate].computation_time)
                            <= tasks[candidate].deadline

(***************************************************************************)
(* The time step of the simulation (SpecSim).                              *)
(***************************************************************************)
Divides(d, n) == d > 0 /\ n % d = 0

\* the number of release instants offset + n * period of the task before now
ReleaseInstantsBefore(i, now) ==
    IF now <= tasks[i].offset THEN 0
    ELSE ((now - tasks[i].offset - 1) \div tasks[i].period) + 1

\* C32: the time step is a positive common divisor of every offset,
\* computation time, deadline and period; the clock, started at 0, is always a
\* multiple of it and has visited every release instant before the present
\* time (each produced its job); and the remaining computation time of every
\* job is a non-negative multiple of the step, so it reaches exactly 0.
C32_TimeStepSafety ==
    time_step # 0 =>
        /\ \A i \in TaskIds :
              /\ Divides(time_step, tasks[i].offset)
              /\ Divides(time_step, tasks[i].computation_time)
              /\ Divides(time_step, tasks[i].deadline)
              /\ Divides(time_step, tasks[i].period)
              /\ job_count[i] = ReleaseInstantsBefore(i, t)
              /\ \A j \in DOMAIN jobs[i] :
                    /\ jobs[i][j].computation_time_remaining >= 0
                    /\ Divides(time_step, jobs[i][j].computation_time_remaining)
                    /\ Divides(time_step, jobs[i][j].release_time)
                    /\ Divides(time_step, get_deadline(i, jobs[i][j]))
        /\ Divides(time_step, t)

\* a step of more than one time unit has brought a job to completion and the
\* clock past a second release
C32_Witness ==
    /\ pc = "loop" /\ time_step >= 2 /\ t >= 2 * time_step
    /\ \E i \in TaskIds :
          /\ job_count[i] >= 2
          /\ \E j \in DOMAIN jobs[i] : jobs[i][j].computation_time_remaining = 0

(***************************************************************************)
(* The iterations of src/utils/metrics.py, one loop iteration per step:    *)
(* get_busy_period, get_first_idle_point, calculate_worst_case_response_   *)
(* time and calculate_worst_case_response_time_with_priorities.  iterate   *)
(* is the loop variable, returned the value returned.  The list argument   *)
(* is sorted_tasks and the priorities argument is assigned_priorities.     *)
(***************************************************************************)
IterFunctions == {"get_busy_period", "get_first_idle_point",
                  "calculate_worst_case_response_time",
                  "calculate_worst_case_response_time_with_priorities"}

\* sum(task.computation_time for task in tasks)
TotalComputation == SumSeq([k \in TaskIds |-> tasks[k].computation_time])

\* what an iteration step does not touch
iterRest == <<tasks, alg, force_simulation, result, simVars, audVars, listVars, multiVars,
              partVars, reviewVars, call, analysed_task>>

\* get_busy_period, lines 271-272
get_busy_period_begin ==
    /\ pc = "call" /\ call = "get_busy_period"
    /\ iterate' = TotalComputation
    /\ pc' = "iterate"
    /\ UNCHANGED <<iterRest, returned>>

\* a variant of the loop body without the convergence test
get_busy_period_iteration_unconverged ==
    /\ pc = "iterate" /\ call = "get_busy_period"
    /\ LET busy_period_next == Interference(AllIds, iterate)
       IN  /\ iterate' = busy_period_next
           /\ IF busy_period_next > get_hyper_period(AllIds)
              THEN returned' = <<2 * busy_period_next>> /\ pc' = "done"
              ELSE returned' = returned /\ pc' = pc
    /\ UNCHANGED iterRest

\* get_busy_period, lines 274-288: one iteration of "while True"
get_busy_period_iteration ==
    /\ pc = "iterate" /\ call = "get_busy_period"
    /\ LET busy_period_next == Interference(AllIds, iterate)
       IN  IF busy_period_next = iterate
           THEN /\ returned' = <<2 * iterate>> /\ pc' = "done"
                /\ iterate' = iterate
           ELSE /\ iterate' = busy_period_next
                /\ IF busy_period_next > get_hyper_period(AllIds)
                   THEN returned' = <<2 * busy_period_next>> /\ pc' = "done"
                   ELSE returned' = returned /\ pc' = pc
    /\ UNCHANGED iterRest

\* get_first_idle_point, lines 219-225
first_idle_upper_bound ==
    IF get_hyper_period(AllIds) < FIRST_IDLE_POINT_CAP
    THEN get_hyper_period(AllIds) ELSE FIRST_IDLE_POINT_CAP

\* lines 228-234: the releases within [0, w], min(deadline, period) apart
first_idle_next(w) ==
    SumSeq([k \in TaskIds |->
        Ceil(w, IF tasks[k].deadline < tasks[k].period
                THEN tasks[k].deadline ELSE tasks[k].period) * tasks[k].computation_time])

get_first_idle_point_begin ==
    /\ pc = "call" /\ call = "get_first_idle_point"
    /\ iterate' = TotalComputation
    /\ pc' = "iterate"
    /\ UNCHANGED <<iterRest, returned>>

\* a variant that returns w itself when w has passed the upper bound
get_first_idle_point_iteration_returning_w ==
    /\ pc = "iterate" /\ call = "get_first_idle_point"
    /\ IF iterate > first_idle_upper_bound \/ first_idle_next(iterate) = iterate
       THEN /\ returned' = <<iterate>> /\ pc' = "done"
            /\ iterate' = iterate
       ELSE /\ iterate' = first_idle_next(iterate)
            /\ returned' = returned /\ pc' = pc
    /\ UNCHANGED iterRest

\* get_first_idle_point, lines 227-244: the test and the body of
\* "while w <= first_idle_upper_bound"
get_first_idle_point_iteration ==
    /\ pc = "iterate" /\ call = "get_first_idle_point"
    /\ IF iterate > first_idle_upper_bound
       THEN /\ returned' = <<first_idle_upper_bound>> /\ pc' = "done"
            /\ iterate' = iterate
       ELSE IF first_idle_next(iterate) = iterate
       THEN /\ returned' = <<first_idle_next(iterate)>> /\ pc' = "done"
            /\ iterate' = iterate
       ELSE /\ iterate' = first_idle_next(iterate)
            /\ returned' = returned /\ pc' = pc
    /\ UNCHANGED iterRest

\* calculate_worst_case_response_time, lines 91-92
calculate_worst_case_response_time_begin ==
    /\ pc = "call" /\ call = "calculate_worst_case_response_time"
    /\ iterate' = tasks[analysed_task].computation_time
    /\ pc' = "iterate"
    /\ UNCHANGED <<iterRest, returned>>

\* a variant of the loop body that leaves only when the deadline is exceeded
calculate_worst_case_response_time_iteration_no_fixpoint ==
    /\ pc = "iterate" /\ call = "calculate_worst_case_response_time"
    /\ LET response_time_next ==
               tasks[analysed_task].computation_time
               + Interference(HigherPriorityPrefix(analysed_task, sorted_tasks), iterate)
       IN  /\ iterate' = response_time_next
           /\ IF response_time_next > tasks[analysed_task].deadline
              THEN returned' = <<response_time_next>> /\ pc' = "done"
              ELSE returned' = returned /\ pc' = pc
    /\ UNCHANGED iterRest

\* calculate_worst_case_response_time, lines 94-108: one iteration
calculate_worst_case_response_time_iteration ==
    /\ pc = "iterate" /\ call = "calculate_worst_case_response_time"
    /\ LET response_time_next ==
               tasks[analysed_task].computation_time
               + Interference(HigherPriorityPrefix(analysed_task, sorted_tasks), iterate)
       IN  /\ iterate' = response_time_next
           /\ IF response_time_next = iterate
                 \/ response_time_next > tasks[analysed_task].deadline
              THEN returned' = <<response_time_next>> /\ pc' = "done"
              ELSE returned' = returned /\ pc' = pc
    /\ UNCHANGED iterRest

\* calculate_worst_case_response_time_with_priorities, line 115
calculate_worst_case_response_time_with_priorities_begin ==
    /\ pc = "call" /\ call = "calculate_worst_case_response_time_with_priorities"
    /\ iterate' = tasks[analysed_task].computation_time
    /\ pc' = "iterate"
    /\ UNCHANGED <<iterRest, returned>>

\* calculate_worst_case_response_time_with_priorities, lines 116-131: one iteration
calculate_worst_case_response_time_with_priorities_iteration ==
    /\ pc = "iterate" /\ call = "calculate_worst_case_response_time_with_priorities"
    /\ LET next_wcrt ==
               tasks[analysed_task].computation_time
               + Interference(HigherPriorityByNumber(analysed_task, sorted_tasks,
                                                     assigned_priorities), iterate)
       IN  IF next_wcrt = iterate
           THEN /\ returned' = <<Finite(iterate)>> /\ pc' = "done"
                /\ iterate' = iterate
           ELSE IF next_wcrt > tasks[analysed_task].deadline
           THEN /\ returned' = <<Infinite>> /\ pc' = "done"
                /\ iterate' = iterate
           ELSE /\ iterate' = next_wcrt
                /\ returned' = returned /\ pc' = pc
    /\ UNCHANGED iterRest

\* Two tasks whose hyper period exceeds the cap of get_first_idle_point, and a
\* set whose iterations take several rounds to converge.
IterNamedTaskSets == { <<Task(0, 10007, 10007, 10007), Task(0, 10009, 10009, 10009)>>,
                       <<Task(0, 1, 3, 3), Task(0, 2, 4, 4), Task(0, 1, 6, 6)>>,
                       <<Task(0, 2, 5, 5), Task(0, 2, 7, 7), Task(0, 3, 20, 20)>> }

IterTaskSets == TaskSetsOf(SyncTasks, {1, 2}) \cup IterNamedTaskSets

InitIter ==
    /\ tasks \in IterTaskSets
    /\ alg = "utils.metrics"
    /\ force_simulation = FALSE
    /\ pc = "call"
    /\ result = None
    /\ call \in IterFunctions
    /\ iterate = 0
    /\ IF call \in {"get_busy_period", "get_first_idle_point"}
       THEN analysed_task = None ELSE analysed_task \in TaskIds
    /\ IF call = "calculate_worst_case_response_time"
       THEN sorted_tasks \in PriorityOrders
       ELSE IF call = "calculate_worst_case_response_time_with_priorities"
       THEN sorted_tasks = AllIds
       ELSE sorted_tasks = <<>>
    /\ IF call = "calculate_worst_case_response_time_with_priorities"
       THEN assigned_priorities \in [TaskIds -> 0..Len(tasks)]
       ELSE assigned_priorities = <<>>
    /\ tasks_to_assign = <<>> /\ priority_level = 0
    /\ inserted = NoJob
    /\ SimIdle /\ MultiIdle /\ PartIdle /\ CallIdle /\ ReviewIdle

NextIter ==
    \/ get_busy_period_begin
    \/ get_busy_period_iteration
    \/ get_first_idle_point_begin
    \/ get_first_idle_point_iteration
    \/ calculate_worst_case_response_time_begin
    \/ calculate_worst_case_response_time_iteration
    \/ calculate_worst_case_response_time_with_priorities_begin
    \/ calculate_worst_case_response_time_with_priorities_iteration

\* a function that was called keeps executing until it returns
SpecIter == InitIter /\ [][NextIter]_vars /\ WF_vars(NextIter)

BusyPeriodCall == call = "get_busy_period"
FirstIdleCall == call = "get_first_idle_point"
WcrtCall == call = "calculate_worst_case_response_time"
WcrtPrioritiesCall == call = "calculate_worst_case_response_time_with_priorities"

\* C33: get_busy_period terminates for every task set, utilisation above 1
\* included.  The loop starts at L0 = sum(computation_time_i), each iteration
\* replaces L by sum(ceil(L / period_i) * computation_time_i), and it returns
\* 2 * L where L is a fixpoint of that equation or the first value the
\* iteration produced that exceeds the hyper period (the starting value L0 is
\* not itself compared with the hyper period).
C33_BusyPeriodTerminates ==
    /\ [][BusyPeriodCall /\ pc = "call" => iterate' = TotalComputation]_vars
    /\ [][BusyPeriodCall /\ pc = "iterate"
            => iterate' \in {iterate, Interference(AllIds, iterate)}]_vars
    /\ [](BusyPeriodCall /\ pc = "iterate"
            => iterate = TotalComputation \/ iterate <= get_hyper_period(AllIds))
    /\ [](BusyPeriodCall /\ pc = "done"
            => /\ returned = <<2 * iterate>>
               /\ \/ Interference(AllIds, iterate) = iterate
                  \/ iterate > get_hyper_period(AllIds))
    /\ [](BusyPeriodCall => <>(pc = "done"))

\* an over-utilised task set left the loop by the hyper period after more than
\* one iteration
C33_Witness ==
    /\ BusyPeriodCall /\ pc = "done"
    /\ ~is_utilisation_lte_1
    /\ iterate > get_hyper_period(AllIds)
    /\ iterate > Interference(AllIds, TotalComputation)

\* C34: get_first_idle_point terminates for every task set and returns either
\* a converged value w, with w = sum(ceil(w / min(deadline_i, period_i)) *
\* computation_time_i) and w <= min(hyper period, 50,000,000), or that upper
\* bound; the value returned never exceeds the hyper period.
C34_FirstIdlePointTerminates ==
    /\ [](FirstIdleCall /\ pc = "done"
            => /\ \/ /\ returned = <<iterate>>
                     /\ first_idle_next(iterate) = iterate
                     /\ iterate <= first_idle_upper_bound
                  \/ returned = <<first_idle_upper_bound>>
               /\ returned[1] <= get_hyper_period(AllIds)
               /\ returned[1] <= FIRST_IDLE_POINT_CAP)
    /\ [](FirstIdleCall => <>(pc = "done"))

\* the iteration passed the upper bound without converging
C34_Witness ==
    /\ FirstIdleCall /\ pc = "done"
    /\ iterate > first_idle_upper_bound
    /\ iterate > TotalComputation
    /\ returned = <<first_idle_upper_bound>>

\* the tasks whose interference each WCRT function counts
WcrtHigher ==
    IF WcrtCall THEN HigherPriorityPrefix(analysed_task, sorted_tasks)
    ELSE HigherPriorityByNumber(analysed_task, sorted_tasks, assigned_priorities)

ResponseEquation(r) ==
    tasks[analysed_task].computation_time + Interference(WcrtHigher, r)

LeastFixpoint(r) ==
    /\ r = ResponseEquation(r)
    /\ \A q \in 1..(r - 1) : q # ResponseEquation(q)

\* C35: both WCRT functions terminate for every task and priority order; the
\* iterates, started at R = C_i, never decrease; the loop goes on only while
\* the iterate is within the deadline; and the result is the least
\* fixpoint of R = C_i + sum over the higher-priority tasks j of
\* ceil(R / period_j) * C_j, or, as soon as an iterate exceeds the deadline, a
\* value greater than the deadline (infinity in the variant with the
\* priority map).
C35_WcrtIterationTerminates ==
    /\ [][(WcrtCall \/ WcrtPrioritiesCall) /\ pc = "call"
            => iterate' = tasks[analysed_task].computation_time]_vars
    /\ [][(WcrtCall \/ WcrtPrioritiesCall) /\ pc = "iterate"
            => iterate' \in {iterate, ResponseEquation(iterate)} /\ iterate' >= iterate]_vars
    /\ []((WcrtCall \/ WcrtPrioritiesCall) /\ pc = "iterate"
            => \/ iterate = tasks[analysed_task].computation_time
               \/ iterate <= tasks[analysed_task].deadline)
    /\ [](WcrtCall /\ pc = "done"
            => /\ returned = <<iterate>>
               /\ LeastFixpoint(iterate) \/ iterate > tasks[analysed_task].deadline)
    /\ [](WcrtPrioritiesCall /\ pc = "done"
            => \/ returned = <<Finite(iterate)>> /\ LeastFixpoint(iterate)
               \/ /\ returned = <<Infinite>>
                  /\ ResponseEquation(iterate) > tasks[analysed_task].deadline)
    /\ []((WcrtCall \/ WcrtPrioritiesCall) => <>(pc = "done"))

\* the response time of a task under interference converged within its
\* deadline after growing at least twice
C35_Witness ==
    /\ WcrtCall /\ pc = "done"
    /\ WcrtHigher # <<>>
    /\ LeastFixpoint(iterate)
    /\ iterate <= tasks[analysed_task].deadline
    /\ iterate > ResponseEquation(tasks[analysed_task].computation_time)

(***************************************************************************)
(* SpecHorizon: EarliestDeadlineFirst.is_feasible, and then the same       *)
(* simulation loop on the same task set, with fresh tasks, run up to the   *)
(* feasibility interval max(offset) + 2 * hyper period.                    *)
(***************************************************************************)
\* the first evaluation is over (it did not time out): its verdict is kept
\* and the tasks are built anew
Simulate_again ==
    /\ pc = "done"
    /\ alg = "EarliestDeadlineFirst"
    /\ compared = None
    /\ sim_ret \in {0, 1}
    /\ compared' = result
    /\ result' = None
    /\ pc' = "simulate_reference"
    /\ t' = 0 /\ time_step' = 0 /\ time_max' = 0
    /\ jobs' = NoJobs /\ job_count' = NoCounts
    /\ active_tasks' = <<>> /\ current_jobs' = <<>>
    /\ previous_cycle_job' = NoJob /\ previous_cycle_task' = None
    /\ ready_queue' = <<>> /\ late' = FALSE /\ sim_ret' = None
    /\ UNCHANGED <<extVars, tasks, alg, force_simulation, audVars, listVars, num_processors,
                   num_clusters, clusters, is_partitioned, cluster_index, feasible>>

\* scheduler.py lines 85-100 with get_feasibility_interval as the horizon
SimulateStart_feasibility_interval ==
    /\ pc = "simulate_reference"
    /\ time_step' = get_delta_t(AllIds)
    /\ time_max' = get_feasibility_interval(AllIds)
    /\ IF is_task_set_too_long(get_feasibility_interval(AllIds))
       THEN /\ sim_ret' = 2
            /\ pc' = "returned"
       ELSE /\ sim_ret' = sim_ret
            /\ pc' = "loop"
    /\ UNCHANGED <<t, jobs, job_count, active_tasks, current_jobs, previous_cycle_job,
                   previous_cycle_task, ready_queue, late>>
    /\ UNCHANGED <<extVars, tasks, alg, force_simulation, result, audVars, listVars, multiVars>>

\* two tasks released together at 1 that cannot both meet their deadline
HorizonNamedTaskSets == { <<Task(1, 2, 2, 4), Task(1, 2, 2, 4)>>,
                          <<Task(0, 1, 1, 3), Task(3, 2, 1, 3)>> }

HorizonTaskSets == TaskSetsOf(Tasks, {1, 2}) \cup NamedTaskSets \cup HorizonNamedTaskSets

InitHorizon ==
    /\ tasks \in HorizonTaskSets
    /\ alg = "EarliestDeadlineFirst"
    /\ force_simulation \in BOOLEAN
    /\ pc = "start"
    /\ result = None
    /\ SimIdle /\ AudIdle /\ ListIdle /\ MultiIdle
    /\ PartIdle /\ CallIdle /\ ReviewIdle /\ IterIdle

NextHorizon ==
    \/ EDF_is_feasible_begin
    \/ SimulateStart
    \/ SimulateTimeout
    \/ SimulateCycle
    \/ SimulateEnd
    \/ EDF_is_feasible_end
    \/ Simulate_again
    \/ SimulateStart_feasibility_interval

SpecHorizon == InitHorizon /\ [][NextHorizon]_vars

\* C36: the verdict EarliestDeadlineFirst.is_feasible reaches by simulating
\* up to get_first_idle_point equals the verdict of the same simulation loop
\* run up to max(offset) + 2 * hyper period, for every task set, offsets and
\* deadlines shorter than periods included (runs that time out set aside).
C36_EDFHorizonSound ==
    (pc = "done" /\ compared # None /\ sim_ret # 2) => result = compared

(***************************************************************************)
(* SpecRerun: a simulating policy evaluated twice on the same TaskSet: the *)
(* second scheduler is new, the Task objects (their job lists and job      *)
(* counters) are those the first evaluation left.                          *)
(***************************************************************************)
\* the first evaluation is over (it did not time out); a scheduler of the
\* same class is built on the same TaskSet
Is_feasible_again ==
    /\ pc = "done"
    /\ compared = None
    /\ sim_ret \in {0, 1}
    /\ compared' = result
    /\ result' = None
    /\ pc' = "start"
    /\ t' = 0 /\ time_step' = 0 /\ time_max' = 0
    /\ active_tasks' = <<>> /\ current_jobs' = <<>>
    /\ previous_cycle_job' = NoJob /\ previous_cycle_task' = None
    /\ ready_queue' = <<>> /\ late' = FALSE /\ sim_ret' = None
    /\ UNCHANGED <<jobs, job_count>>
    /\ UNCHANGED <<extVars, tasks, alg, force_simulation, audVars, listVars, num_processors,
                   num_clusters, clusters, is_partitioned, cluster_index, feasible>>

RerunTaskSets == TaskSetsOf(Tasks, {1, 2}) \cup NamedTaskSets

InitRerun ==
    /\ tasks \in RerunTaskSets
    /\ alg \in {"EarliestDeadlineFirst", "RoundRobin"}
    /\ force_simulation \in BOOLEAN
    /\ pc = "start"
    /\ result = None
    /\ SimIdle /\ AudIdle /\ ListIdle /\ MultiIdle
    /\ PartIdle /\ CallIdle /\ ReviewIdle /\ IterIdle

NextRerun ==
    \/ EDF_is_feasible_begin
    \/ RR_is_feasible_begin
    \/ SimulateStart
    \/ SimulateTimeout
    \/ SimulateCycle
    \/ SimulateEnd
    \/ EDF_is_feasible_end
    \/ RR_is_feasible_end
    \/ Is_feasible_again

SpecRerun == InitRerun /\ [][NextRerun]_vars

\* C37: a second run of a simulating is_feasible (EDF or Round Robin) on the
\* same Task objects completes without error and returns the verdict of the
\* first run: the jobs the first simulation left in the tasks' job lists do
\* not influence the second (runs that time out set aside).
C37_ReevaluationIdempotent ==
    compared # None =>
        /\ pc # "raised"
        /\ (pc = "done" /\ sim_ret # 2) => result = compared

(***************************************************************************)
(* The partition as a whole (SpecPart).                                    *)
(***************************************************************************)
\* the number of times the task is listed in the clusters
Assignments(i) ==
    SumSeq([c \in DOMAIN clusters |-> Occurrences(clusters[c].tasks, i)])

\* C38: whenever the partitioning succeeded (any heuristic, any sort order,
\* or the single cluster of the global case), every task of the task set is
\* in exactly one cluster, exactly once, and every cluster kept after
\* remove_empty_clusters has at least one task.
C38_PartitionExclusive ==
    is_partitioned =>
        /\ \A i \in TaskIds : Assignments(i) = 1
        /\ \A c \in DOMAIN clusters :
              /\ clusters[c].tasks # <<>>
              /\ \A a \in DOMAIN clusters[c].tasks : clusters[c].tasks[a] \in TaskIds

\* a heuristic left a cluster without tasks, which was dropped, and spread
\* the tasks over the others
C38_Witness ==
    /\ is_partitioned /\ heuristic # "None" /\ num_clusters # 1
    /\ Len(clusters) >= 2
    /\ Len(clusters) < Len(init_clusters(num_clusters, num_processors))
    /\ Len(tasks) >= 3

(***************************************************************************)
(* The construction of EDFk from its arguments (SpecConstruct): __init__   *)
(* asserts num_clusters <= num_processors before it creates the list of    *)
(* clusters and calls __post_init__.                                       *)
(***************************************************************************)
\* the numbers of clusters asked for, some above every processor count
ConstructClusters == 1..5

\* EDFk.__init__ up to the call of __post_init__
EDFk_init ==
    /\ pc = "construct"
    /\ pc' = IF num_clusters <= num_processors THEN "init_clusters" ELSE "raised"
    /\ UNCHANGED <<extVars, tasks, alg, force_simulation, result, simVars, audVars, listVars>>
    /\ UNCHANGED <<num_processors, num_clusters, clusters, is_partitioned, cluster_index,
                   feasible, compared>>

InitConstruct ==
    /\ tasks \in PartTaskSets
    /\ alg = "EDFk"
    /\ force_simulation = FALSE
    /\ pc = "construct"
    /\ result = None
    /\ num_processors \in PartProcessors
    /\ num_clusters \in ConstructClusters
    /\ heuristic \in Heuristics
    /\ decreasing_utilisation \in BOOLEAN
    /\ clusters = <<>> /\ is_partitioned = FALSE
    /\ cluster_index = 0 /\ feasible = None /\ compared = None
    /\ SimIdle /\ AudIdle /\ ListIdle /\ CallIdle /\ ReviewIdle /\ IterIdle

NextConstruct ==
    \/ EDFk_init
    \/ EDFk_init_clusters
    \/ EDFk_partition_taskset

SpecConstruct == InitConstruct /\ [][NextConstruct]_vars

\* C39: for every m >= 1 and every k with 1 <= k <= m, the clusters created
\* by init_clusters have positive processor counts whose sum is exactly m;
\* the construction of EDFk with k > m is rejected before any cluster is
\* created.
C39_ProcessorConservation ==
    /\ pc = "partition_taskset" =>
          /\ num_clusters <= num_processors
          /\ clusters # <<>>
          /\ \A c \in DOMAIN clusters : clusters[c].num_processors > 0
          /\ SumSeq(ClusterSizes) = num_processors
    /\ (num_clusters > num_processors /\ pc # "construct") =>
          /\ pc = "raised"
          /\ clusters = <<>>
          /\ ~is_partitioned

\* the processors do not divide evenly: clusters of k processors and one
\* cluster of the remaining ones
C39_Witness ==
    /\ pc = "partition_taskset"
    /\ 1 < num_clusters /\ num_clusters < num_processors
    /\ num_processors % num_clusters > 0
    /\ Len(clusters) >= 2
    /\ clusters[Len(clusters)].num_processors = num_processors % num_clusters

\* a construction with more clusters than processors was rejected
C39_Rejected == pc = "raised" /\ num_clusters > num_processors

(***************************************************************************)
(* The demand bound function of utils.metrics (SpecDemand).  call names    *)
(* the function called, analysed_task its task argument, iterate its       *)
(* till_time argument, num_processors the processor count of the iterative *)
(* test and returned the value returned.                                   *)
(***************************************************************************)
DemandFunctions == {"demand_bound_function", "demand_bound_function_iterative"}

MaxTillTime == 7

\* demand_bound_function, lines 138-139.  The division binds tighter than the
\* subtraction: math.floor(till_time - task.deadline / task.period) is
\* till_time less the quotient deadline / period rounded up.
demand_bound_function(task, till_time) ==
    LET workload_contribution == (till_time - Ceil(task.deadline, task.period)) + 1
    IN  (IF workload_contribution > 0 THEN workload_contribution ELSE 0)
            * task.computation_time

\* demand_bound_function_tasks
demand_bound_function_tasks(ids, till_time) ==
    SumSeq([k \in DOMAIN ids |-> demand_bound_function(tasks[ids[k]], till_time)])

\* compute_critical_points: the releases up to t_max and their deadlines
compute_critical_points(ids, t_max) ==
    UNION { { tasks[ids[i]].offset + k * tasks[ids[i]].period,
              tasks[ids[i]].offset + k * tasks[ids[i]].period + tasks[ids[i]].deadline }
            : <<i, k>> \in { ik \in (DOMAIN ids) \X (0..t_max) :
                             tasks[ids[ik[1]]].offset + ik[2] * tasks[ids[ik[1]]].period
                                 <= t_max } }

\* demand_bound_function_iterative
demand_bound_function_iterative(ids, till_time, processors) ==
    \A point \in compute_critical_points(ids, till_time) :
        ~(demand_bound_function_tasks(ids, point) > processors * point)

demand_bound_function_call ==
    /\ pc = "call" /\ call = "demand_bound_function"
    /\ returned' = <<demand_bound_function(tasks[analysed_task], iterate)>>
    /\ pc' = "done"
    /\ UNCHANGED <<iterRest, iterate>>

demand_bound_function_iterative_call ==
    /\ pc = "call" /\ call = "demand_bound_function_iterative"
    /\ returned' = <<demand_bound_function_iterative(AllIds, iterate, num_processors)>>
    /\ pc' = "done"
    /\ UNCHANGED <<iterRest, iterate>>

InitDemand ==
    /\ tasks \in TaskSetsOf(Tasks, {1, 2})
    /\ alg = "utils.metrics"
    /\ force_simulation = FALSE
    /\ pc = "call"
    /\ result = None
    /\ call \in DemandFunctions
    /\ iterate \in 0..MaxTillTime
    /\ IF call = "demand_bound_function"
       THEN analysed_task \in TaskIds /\ num_processors = 0
       ELSE analysed_task = None /\ num_processors \in {1, 2}
    /\ num_clusters = 0 /\ clusters = <<>> /\ is_partitioned = FALSE
    /\ cluster_index = 0 /\ feasible = None /\ compared = None
    /\ SimIdle /\ AudIdle /\ ListIdle /\ PartIdle /\ CallIdle /\ ReviewIdle

NextDemand ==
    \/ demand_bound_function_call
    \/ demand_bound_function_iterative_call

SpecDemand == InitDemand /\ [][NextDemand]_vars

\* the demand of the jobs of the task released from time 0 on whose absolute
\* deadline is at or before till_time
DemandOfJobsDueBy(task, till_time) ==
    LET due == ((till_time - task.deadline) \div task.period) + 1
    IN  (IF due > 0 THEN due ELSE 0) * task.computation_time

\* C40: demand_bound_function(task, t) counts only the jobs whose absolute
\* deadline is at or before t under synchronous release: it returns
\* max(0, floor((t - deadline) / period) + 1) * computation_time, so it
\* returns 0 for every t < task.deadline, and it is non-decreasing in t.
C40_DemandBoundFunction ==
    (pc = "done" /\ call = "demand_bound_function") =>
        LET task == tasks[analysed_task]
        IN  /\ returned[1] = DemandOfJobsDueBy(task, iterate)
            /\ (iterate < task.deadline => returned[1] = 0)
            /\ returned[1] <= demand_bound_function(task, iterate + 1)

====
